---- MODULE Spec2Model ----
(***************************************************************************)
(* The RL decision engine of TradingAgents: StateEncoder, RewardCalculator, *)
(* TradingEnvironment, ReplayBuffer and RLTradingAgent                      *)
(* (src/tradingagents/rl).                                                  *)
(*                                                                         *)
(* Python floats are modelled as exact rationals <<numerator, denominator>> *)
(* in lowest terms with a positive denominator; rounding is abstracted.     *)
(* Every method call is one action.  The variable ret records the last call *)
(* (its arguments, what it returned or that it raised) and a snapshot of    *)
(* the object's fields before the call.                                     *)
(***************************************************************************)
EXTENDS Integers, Sequences, FiniteSets, TLC

VARIABLES
    \* TradingEnvironment fields (rl_environment.py:43-48)
    current_step, capital, position, entry_price, agent_state, trade_history,
    env_ret,
    \* RLTradingAgent fields (rl_agent.py:134-160)
    capacity, batch_size, target_update_freq,
    buffer, policy_net, target_net, optimizer, training_step, epsilon, losses,
    agent_ret,
    \* history of the agent: every transition pushed so far, and the policy
    \* weights at construction and right after each update
    pushed, weights_log,
    \* the last call of ReplayBuffer.sample
    sample_ret,
    \* state_dim and action_dim of the agent, its episode_rewards field, how
    \* many agents have been constructed, the files on disk and the last
    \* constructor, save_model or load_model call
    dims, episode_rewards, agent_id, files, io_ret,
    \* the last save_model call that returned: who saved what where
    saved,
    \* the last call of select_action or get_all_action_probabilities, with a
    \* summary of the call before it
    infer_ret,
    \* a StateEncoder of its own (its state_dim field) and its last encode call
    encoder, enc_ret,
    \* the last call of get_trade_statistics or render
    stats_ret,
    \* the last call of get_training_stats
    train_stats_ret,
    \* RLTrainer.train: where it is, its counters and its history lists
    trainer,
    \* the last call of a function that only computes (RewardCalculator,
    \* calculate_profit_probability)
    calc_ret

env_vars == <<current_step, capital, position, entry_price, agent_state,
              trade_history, env_ret>>
agent_vars == <<capacity, batch_size, target_update_freq, buffer, policy_net,
                target_net, optimizer, training_step, epsilon, losses,
                agent_ret, pushed, weights_log>>
\* what the query and persistence operations record
persist_vars == <<dims, episode_rewards, agent_id, files, io_ret, saved>>
encoder_vars == <<encoder, enc_ret>>
aux_vars == <<sample_ret, persist_vars, infer_ret, encoder_vars, stats_ret,
              train_stats_ret, trainer, calc_ret>>
vars == <<env_vars, agent_vars, aux_vars>>

----------------------------------------------------------------------------
(* Rational arithmetic *)

RECURSIVE Gcd(_, _)
Gcd(a, b) == IF b = 0 THEN a ELSE Gcd(b, a % b)

Abs(x) == IF x < 0 THEN -x ELSE x

Min(a, b) == IF a < b THEN a ELSE b

Rat(n, d) ==
    LET g == Gcd(Abs(n), Abs(d))
        s == IF d < 0 THEN -1 ELSE 1
    IN  <<(s * n) \div g, (s * d) \div g>>

Zero == <<0, 1>>
One == <<1, 1>>
RInt(n) == <<n, 1>>
RAdd(a, b) == Rat(a[1] * b[2] + b[1] * a[2], a[2] * b[2])
RSub(a, b) == Rat(a[1] * b[2] - b[1] * a[2], a[2] * b[2])
RMul(a, b) == Rat(a[1] * b[1], a[2] * b[2])
RDiv(a, b) == Rat(a[1] * b[2], a[2] * b[1])
RNeg(a) == <<-a[1], a[2]>>
RAbs(a) == <<Abs(a[1]), a[2]>>
RLt(a, b) == a[1] * b[2] < b[1] * a[2]
RLe(a, b) == a[1] * b[2] <= b[1] * a[2]
RMax(a, b) == IF RLt(a, b) THEN b ELSE a
RMin(a, b) == IF RLt(b, a) THEN b ELSE a

RECURSIVE Zeros(_)
Zeros(n) == IF n <= 0 THEN <<>> ELSE <<Zero>> \o Zeros(n - 1)

----------------------------------------------------------------------------
(* StateEncoder (rl_state_encoder.py)                                       *)
(*                                                                         *)
(* A report is what the encoder's searches can see of a text: kind says     *)
(* whether the mapping has the key ("absent"), holds None ("none") or holds *)
(* a string ("text"); kw is the set of keywords that occur in the lowered   *)
(* text; num maps each numeric pattern that matches to the number of its    *)
(* first match; cnt is the number of occurrences of 'news' plus 'article'.  *)

EmptyNum == [p \in {} |-> Zero]
EmptyText == [kind |-> "text", kw |-> {}, num |-> EmptyNum, cnt |-> 0]
AbsentReport == [kind |-> "absent", kw |-> {}, num |-> EmptyNum, cnt |-> 0]
NoneReport == [kind |-> "none", kw |-> {}, num |-> EmptyNum, cnt |-> 0]

\* agent_state.get(report_key, "")
GetReport(m, key) == IF m[key].kind = "absent" THEN EmptyText ELSE m[key]

\* match = re.search(pattern, report); float(match.group(1)) or the default
NumOr(r, p, default) == IF p \in DOMAIN r.num THEN r.num[p] ELSE default

TechnicalIndicators ==
    <<"rsi", "macd", "sma_50", "sma_200", "ema_10", "volume", "volatility", "atr">>

extract_technical_features(r) ==
    [i \in 1..Len(TechnicalIndicators) |->
        LET name == TechnicalIndicators[i] IN
        IF name \in DOMAIN r.num
        THEN IF name = "rsi" THEN RDiv(r.num[name], RInt(100)) ELSE r.num[name]
        ELSE Zero]
    \o << IF "bullish" \in r.kw THEN One
          ELSE IF "bearish" \in r.kw THEN RNeg(One)
          ELSE Zero >>

FundamentalMetrics ==
    <<"pe_ratio", "eps", "revenue", "profit_margin", "debt_ratio", "roe">>

extract_fundamental_features(r) ==
    [i \in 1..Len(FundamentalMetrics) |-> NumOr(r, FundamentalMetrics[i], Zero)]

extract_news_features(r) ==
    << IF "positive" \in r.kw THEN <<1, 2>>
       ELSE IF "very positive" \in r.kw \/ "bullish" \in r.kw THEN One
       ELSE IF "negative" \in r.kw THEN <<-1, 2>>
       ELSE IF "very negative" \in r.kw \/ "bearish" \in r.kw THEN RNeg(One)
       ELSE Zero,
       RMin(Rat(r.cnt, 10), One),
       IF "significant" \in r.kw \/ "major" \in r.kw THEN One
       ELSE IF "minor" \in r.kw \/ "small" \in r.kw THEN <<3, 10>>
       ELSE <<1, 2>> >>

extract_sentiment_features(r) ==
    << IF "bullish" \in r.kw THEN <<7, 10>>
       ELSE IF "bearish" \in r.kw THEN <<-7, 10>>
       ELSE Zero,
       IF "strong" \in r.kw THEN One
       ELSE IF "weak" \in r.kw THEN <<3, 10>>
       ELSE <<1, 2>> >>

GreekNames == <<"delta", "gamma", "theta", "vega", "rho">>

StrategyEncoding ==
    << <<"call", <<1, 10>> >>, <<"put", <<2, 10>> >>, <<"spread", <<3, 10>> >>,
       <<"straddle", <<4, 10>> >>, <<"strangle", <<5, 10>> >>,
       <<"iron_condor", <<6, 10>> >>, <<"covered_call", <<7, 10>> >> >>

RECURSIVE StrategyValue(_, _)
StrategyValue(r, i) ==
    IF i > Len(StrategyEncoding) THEN Zero
    ELSE IF StrategyEncoding[i][1] \in r.kw THEN Rat(StrategyEncoding[i][2][1], StrategyEncoding[i][2][2])
    ELSE StrategyValue(r, i + 1)

extract_options_features(r) ==
    [i \in 1..Len(GreekNames) |-> NumOr(r, GreekNames[i], Zero)]
    \o << IF "iv" \in DOMAIN r.num THEN RDiv(r.num["iv"], RInt(100)) ELSE Zero,
          NumOr(r, "put_call", One),
          StrategyValue(r, 1) >>

ReportKeys == <<"market_report", "fundamentals_report", "news_report",
                "sentiment_report", "options_report">>

\* mutant: a vector longer than state_dim is returned whole
PadOrTruncate_never_truncates(features, dim) ==
    IF Len(features) < dim THEN features \o Zeros(dim - Len(features)) ELSE features

\* np.pad(features, (0, state_dim - len)) or features[:state_dim]
PadOrTruncate(features, dim) ==
    IF Len(features) < dim THEN features \o Zeros(dim - Len(features))
    ELSE IF Len(features) > dim THEN SubSeq(features, 1, dim)
    ELSE features

\* StateEncoder.encode: the vector, or raised when a report is None (the
\* regular-expression search and str.lower both reject None).
encode(m, dim) ==
    IF \E i \in 1..Len(ReportKeys) : m[ReportKeys[i]].kind = "none"
    THEN [raised |-> TRUE, vec |-> <<>>]
    ELSE [raised |-> FALSE,
          vec |-> PadOrTruncate(
              extract_technical_features(GetReport(m, "market_report"))
              \o extract_fundamental_features(GetReport(m, "fundamentals_report"))
              \o extract_news_features(GetReport(m, "news_report"))
              \o extract_sentiment_features(GetReport(m, "sentiment_report"))
              \o extract_options_features(GetReport(m, "options_report"))
              \o << IF m.trading_mode = "options" THEN One ELSE Zero >>,
              dim)]

\* StateEncoder.get_feature_names
get_feature_names ==
    <<"rsi", "macd", "sma_50", "sma_200", "ema_10", "volume", "volatility", "atr", "trend">>
    \o <<"pe_ratio", "eps", "revenue", "profit_margin", "debt_ratio", "roe">>
    \o <<"news_sentiment", "news_volume", "news_impact">>
    \o <<"social_sentiment", "sentiment_strength">>
    \o <<"delta", "gamma", "theta", "vega", "rho", "implied_volatility",
         "put_call_ratio", "strategy_type">>
    \o <<"is_options_mode">>

\* StateEncoder.decode_action: a Python list index, so -n..-1 count from the
\* end and anything else raises IndexError.
ActionNames3 == <<"BUY", "HOLD", "SELL">>
ActionNames5 == <<"STRONG_BUY", "BUY", "HOLD", "SELL", "STRONG_SELL">>

ListIndex(list, i) ==
    IF 0 <= i /\ i < Len(list) THEN [raised |-> FALSE, name |-> list[i + 1]]
    ELSE IF -Len(list) <= i /\ i < 0 THEN [raised |-> FALSE, name |-> list[Len(list) + i + 1]]
    ELSE [raised |-> TRUE, name |-> "IndexError"]

decode_action(action, num_actions) ==
    IF num_actions = 3 THEN ListIndex(ActionNames3, action)
    ELSE IF num_actions = 5 THEN ListIndex(ActionNames5, action)
    ELSE [raised |-> FALSE, name |-> "HOLD"]

----------------------------------------------------------------------------
(* RewardCalculator (rl_reward.py) *)

profit_reward == One
loss_penalty == RNeg(One)
transaction_cost == <<1, 100>>
risk_penalty_weight == <<1, 10>>

\* an optional float argument
NoFloat == [none |-> TRUE, v |-> Zero]
SomeFloat(v) == [none |-> FALSE, v |-> v]

\* calculate_reward without the scaling by 10
calculate_reward_unscaled(action, entry, exit, volatility) ==
    IF action \notin {"BUY", "SELL"} THEN [raised |-> FALSE, value |-> Zero]
    ELSE IF entry = Zero THEN [raised |-> TRUE, value |-> Zero]
    ELSE
        LET pnl == IF action = "BUY" THEN RDiv(RSub(exit, entry), entry)
                   ELSE RDiv(RSub(entry, exit), entry)
            base == IF RLt(Zero, pnl) THEN profit_reward ELSE loss_penalty
            costed == RSub(RMul(base, RAbs(pnl)), transaction_cost)
        IN  [raised |-> FALSE,
             value |-> IF volatility.none THEN costed
                       ELSE RSub(costed, RMul(volatility.v, risk_penalty_weight))]

\* RewardCalculator.calculate_reward: the reward, or raised on the division
\* by a zero entry price.
calculate_reward(action, entry, exit, volatility) ==
    IF action = "HOLD" THEN [raised |-> FALSE, value |-> Zero]
    ELSE IF action \notin {"BUY", "SELL"} THEN [raised |-> FALSE, value |-> Zero]
    ELSE IF entry = Zero THEN [raised |-> TRUE, value |-> Zero]
    ELSE
        LET pnl == IF action = "BUY" THEN RDiv(RSub(exit, entry), entry)
                   ELSE RDiv(RSub(entry, exit), entry)
            base == IF RLt(Zero, pnl) THEN profit_reward ELSE loss_penalty
            scaled == RMul(base, RMul(RAbs(pnl), RInt(10)))
            costed == RSub(scaled, transaction_cost)
        IN  [raised |-> FALSE,
             value |-> IF volatility.none THEN costed
                       ELSE RSub(costed, RMul(volatility.v, risk_penalty_weight))]

\* an optional dict of Greeks: None, or a dict that may hold theta and gamma
NoGreeks == [none |-> TRUE, has_theta |-> FALSE, theta |-> Zero,
             has_gamma |-> FALSE, gamma |-> Zero]

\* RewardCalculator.calculate_options_reward
calculate_options_reward(action, strategy, premium, pnl, max_loss, greeks) ==
    LET base == IF RLt(Zero, pnl) THEN profit_reward ELSE loss_penalty
        r1 == IF RLt(Zero, premium) THEN RMul(base, RDiv(RAbs(pnl), premium)) ELSE base
        r2 == IF RLt(Zero, max_loss)
              THEN RMul(r1, RAdd(One, RDiv(RAbs(pnl), max_loss))) ELSE r1
        truthy == ~greeks.none /\ (greeks.has_theta \/ greeks.has_gamma)
        r3 == IF truthy /\ greeks.has_theta /\ RLt(greeks.theta, Zero)
              THEN RSub(r2, RMul(RAbs(greeks.theta), <<1, 10>>)) ELSE r2
        r4 == IF truthy /\ greeks.has_gamma
              THEN RSub(r3, RMul(RAbs(greeks.gamma), <<1, 20>>)) ELSE r3
    IN  RSub(r4, transaction_cost)

\* RewardCalculator.calculate_win_rate_reward: the reward, or raised on the
\* division by a zero total loss amount.
calculate_win_rate_reward(wins, n_losses, avg_win, avg_loss) ==
    LET total_trades == wins + n_losses
        win_rate == Rat(wins, total_trades)
        gain == RMul(RInt(wins), avg_win)
        loss_amount == RMul(RInt(n_losses), RAbs(avg_loss))
        combine(profit_factor) ==
            RAdd(RMul(RSub(win_rate, <<1, 2>>), RInt(2)), RSub(profit_factor, One))
    IN  IF total_trades = 0 THEN [raised |-> FALSE, value |-> Zero]
        ELSE IF avg_loss # Zero
             THEN IF loss_amount = Zero THEN [raised |-> TRUE, value |-> Zero]
                  ELSE [raised |-> FALSE, value |-> combine(RDiv(gain, loss_amount))]
             ELSE [raised |-> FALSE, value |-> combine(gain)]

----------------------------------------------------------------------------
(* TradingEnvironment (rl_environment.py) *)

initial_capital == 100000
action_space_n == 3
\* max_steps and the encoder's state_dim are constructor arguments
max_steps == 3
state_dim == 30
\* no more than this many step / step_options calls are explored per episode
MaxEpisodeCalls == 3

\* A report mapping: the five reports and the trading mode ("absent" when the
\* key is missing); none marks the Python value None passed instead of a dict.
Mapping(market, fundamentals, news, sentiment, options, mode) ==
    [none |-> FALSE, market_report |-> market, fundamentals_report |-> fundamentals,
     news_report |-> news, sentiment_report |-> sentiment,
     options_report |-> options, trading_mode |-> mode]

EmptyMapping ==
    Mapping(AbsentReport, AbsentReport, AbsentReport, AbsentReport, AbsentReport, "absent")
NoneMapping == [EmptyMapping EXCEPT !.none = TRUE]

\* "RSI: 55 ... bullish" as the market report, a positive news text
BullishMapping ==
    Mapping([kind |-> "text", kw |-> {"bullish"}, num |-> [p \in {"rsi"} |-> RInt(55)], cnt |-> 0],
            AbsentReport,
            [kind |-> "text", kw |-> {"positive", "major"}, num |-> EmptyNum, cnt |-> 3],
            AbsentReport, AbsentReport, "stock")

\* an options-mode mapping with a bearish sentiment text and an options text
OptionsMapping ==
    Mapping(AbsentReport, EmptyText, AbsentReport,
            [kind |-> "text", kw |-> {"bearish", "weak"}, num |-> EmptyNum, cnt |-> 0],
            [kind |-> "text", kw |-> {"call", "covered_call"},
             num |-> [p \in {"delta", "iv"} |-> IF p = "delta" THEN <<1, 2>> ELSE RInt(30)],
             cnt |-> 0],
            "options")

StepMappings == {BullishMapping, OptionsMapping}
ResetMappings == StepMappings \cup {EmptyMapping, NoneMapping}
StepActions == 0..3
Prices == {Zero, RInt(100), RInt(110), RInt(200)}

\* the arguments of a step_options call
OptionsTrade(action, strategy, premium, pnl, max_loss, greeks) ==
    [action |-> action, strategy |-> strategy, premium |-> premium, pnl |-> pnl,
     max_loss |-> max_loss, greeks |-> greeks]

NoTrade == OptionsTrade(0, "", Zero, Zero, Zero, NoGreeks)

OptionsTrades ==
    { OptionsTrade(0, "call", RInt(500), RInt(50000), RInt(500), NoGreeks),
      OptionsTrade(2, "put", Zero, RInt(-50000), Zero,
                   [none |-> FALSE, has_theta |-> TRUE, theta |-> RInt(-2),
                    has_gamma |-> TRUE, gamma |-> <<1, 2>>]),
      OptionsTrade(1, "spread", RInt(500), Zero, RInt(1000),
                   [none |-> FALSE, has_theta |-> FALSE, theta |-> Zero,
                    has_gamma |-> FALSE, gamma |-> Zero]) }

\* `if agent_state:` - None and the empty dict are both false
Truthy(m) ==
    /\ ~m.none
    /\ \/ m.trading_mode # "absent"
       \/ \E i \in 1..Len(ReportKeys) : m[ReportKeys[i]].kind # "absent"

\* the fields of the environment, as a record
EnvFields ==
    [current_step |-> current_step, capital |-> capital, position |-> position,
     entry_price |-> entry_price, agent_state |-> agent_state,
     trade_history |-> trade_history]

\* what a call returned: next_state / reward / done, or raised
EnvRet(op, raised, action, action_str, m, price, trade, reward, done, state) ==
    [op |-> op, raised |-> raised, action |-> action, action_str |-> action_str,
     mapping |-> m, price |-> price, trade |-> trade, reward |-> reward,
     done |-> done, state |-> state, pre |-> EnvFields]

\* mutant: the fractional return, not scaled by the capital
TradePnl_unscaled(entry, exit, cap) == RDiv(RSub(exit, entry), entry)

\* pnl = ((current_price - entry_price) / entry_price) * capital
TradePnl(entry, exit, cap) == RMul(RDiv(RSub(exit, entry), entry), cap)

\* mutant: the step budget test is strict
StepDone_strict_budget(n, cap) ==
    \/ n > max_steps
    \/ RLe(cap, Zero)
    \/ RLe(RInt(initial_capital * 2), cap)

\* the stock-mode termination test (rl_environment.py:143-147)
StepDone(n, cap) ==
    \/ n >= max_steps
    \/ RLe(cap, Zero)
    \/ RLe(RInt(initial_capital * 2), cap)

\* mutant: options mode terminates on the stock-mode capital thresholds
OptionsDone_stock_thresholds(n, cap) ==
    \/ n >= max_steps
    \/ RLe(cap, Zero)
    \/ RLe(RInt(initial_capital * 2), cap)

\* the options-mode termination test (rl_environment.py:215-219)
OptionsDone(n, cap) ==
    \/ n >= max_steps
    \/ RLe(cap, RDiv(RInt(initial_capital), RInt(2)))
    \/ RLe(RDiv(RInt(initial_capital * 3), RInt(2)), cap)

EnvInit ==
    /\ current_step = 0
    /\ capital = RInt(initial_capital)
    /\ position = 0
    /\ entry_price = Zero
    /\ agent_state = EmptyMapping
    /\ trade_history = <<>>
    /\ env_ret = [op |-> "init", raised |-> FALSE, action |-> 0, action_str |-> "",
                  mapping |-> EmptyMapping, price |-> Zero, trade |-> NoTrade,
                  reward |-> Zero, done |-> FALSE, state |-> <<>>,
                  pre |-> [current_step |-> 0, capital |-> RInt(initial_capital),
                           position |-> 0, entry_price |-> Zero,
                           agent_state |-> EmptyMapping, trade_history |-> <<>>]]

\* TradingEnvironment.reset(agent_state)
reset(m) ==
    LET kept == IF Truthy(m) THEN m ELSE agent_state
        enc == encode(kept, state_dim)
    IN  /\ current_step' = 0
        /\ capital' = RInt(initial_capital)
        /\ position' = 0
        /\ entry_price' = Zero
        /\ trade_history' = <<>>
        /\ agent_state' = kept
        /\ env_ret' = EnvRet("reset", enc.raised, 0, "", m, Zero, NoTrade, Zero,
                             FALSE, enc.vec)

\* mutant: the position opens without recording the entry price
OpenLong_keeps_entry_price(price) ==
    /\ position' = 1
    /\ UNCHANGED <<entry_price, capital, trade_history>>

\* the BUY branch of step: open a long position at the current price
OpenLong(price) ==
    /\ position' = 1
    /\ entry_price' = price
    /\ UNCHANGED <<capital, trade_history>>

\* mutant: the trade is realised without a record of it
CloseLong_unrecorded(price, reward) ==
    /\ capital' = RAdd(capital, TradePnl(entry_price, price, capital))
    /\ position' = 0
    /\ entry_price' = Zero
    /\ UNCHANGED trade_history

\* mutant: the closed position keeps its entry price
CloseLong_keeps_entry_price(price, reward) ==
    LET pnl == TradePnl(entry_price, price, capital)
    IN  /\ capital' = RAdd(capital, pnl)
        /\ trade_history' = Append(trade_history,
               [entry |-> entry_price, exit |-> price, pnl |-> pnl, reward |-> reward])
        /\ position' = 0
        /\ UNCHANGED entry_price

\* the SELL branch of step: realise the trade and return to flat
CloseLong(price, reward) ==
    LET pnl == TradePnl(entry_price, price, capital)
    IN  /\ capital' = RAdd(capital, pnl)
        /\ trade_history' = Append(trade_history,
               [entry |-> entry_price, exit |-> price, pnl |-> pnl, reward |-> reward])
        /\ position' = 0
        /\ entry_price' = Zero

\* mutant: BUY re-opens whatever the position
Opens_any_position(action_str, pos) == action_str = "BUY"

\* `if action_str == "BUY" and self.position == 0`
Opens(action_str, pos) == action_str = "BUY" /\ pos = 0

\* `elif action_str == "SELL" and self.position == 1`
Closes(action_str, pos) == action_str = "SELL" /\ pos = 1

\* TradingEnvironment.step(action, agent_state, current_price)
step(action, m, price) ==
    LET dec == decode_action(action, action_space_n)
        opens == ~dec.raised /\ Opens(dec.name, position)
        closes == ~dec.raised /\ ~opens /\ Closes(dec.name, position)
        rw == IF closes THEN calculate_reward("BUY", entry_price, price, NoFloat)
              ELSE [raised |-> FALSE, value |-> Zero]
        enc == encode(m, state_dim)
    IN  /\ current_step < MaxEpisodeCalls
        /\ current_step' = current_step + 1
        /\ agent_state' = m
        /\ IF dec.raised \/ rw.raised
           THEN /\ UNCHANGED <<capital, position, entry_price, trade_history>>
                /\ env_ret' = EnvRet("step", TRUE, action,
                                     IF dec.raised THEN "" ELSE dec.name,
                                     m, price, NoTrade, Zero, FALSE, <<>>)
           ELSE /\ IF opens THEN OpenLong(price)
                   ELSE IF closes THEN CloseLong(price, rw.value)
                   ELSE UNCHANGED <<capital, position, entry_price, trade_history>>
                /\ env_ret' = EnvRet("step", enc.raised, action, dec.name, m, price,
                                     NoTrade, rw.value,
                                     StepDone(current_step', capital'), enc.vec)

\* action_str = "BUY" if action == 0 else "SELL"
OptionsActionStr(action) == IF action = 0 THEN "BUY" ELSE "SELL"

\* TradingEnvironment.step_options(action, agent_state, strategy, premium,
\* pnl, max_loss, greeks)
step_options(t, m) ==
    LET action_str == OptionsActionStr(t.action)
        reward == calculate_options_reward(action_str, t.strategy, t.premium,
                                           t.pnl, t.max_loss, t.greeks)
        enc == encode(m, state_dim)
    IN  /\ current_step < MaxEpisodeCalls
        /\ current_step' = current_step + 1
        /\ agent_state' = m
        /\ capital' = RAdd(capital, t.pnl)
        /\ trade_history' = Append(trade_history,
               [strategy |-> t.strategy, premium |-> t.premium, pnl |-> t.pnl,
                reward |-> reward, greeks |-> t.greeks])
        /\ UNCHANGED <<position, entry_price>>
        /\ env_ret' = EnvRet("step_options", enc.raised, t.action, action_str, m,
                             Zero, t, reward,
                             OptionsDone(current_step', capital'), enc.vec)

Reset == \E m \in ResetMappings : reset(m) /\ UNCHANGED <<agent_vars, aux_vars>>
Step ==
    \E action \in StepActions, m \in StepMappings, price \in Prices :
        step(action, m, price) /\ UNCHANGED <<agent_vars, aux_vars>>
StepOptions ==
    \E t \in OptionsTrades, m \in StepMappings :
        step_options(t, m) /\ UNCHANGED <<agent_vars, aux_vars>>

----------------------------------------------------------------------------
(* Trade statistics (rl_environment.py:260-312, rl_reward.py:145-170)       *)
(*                                                                         *)
(* A statistics dictionary is the set of its keys and a value for each; the *)
(* value under a key that is not in the dictionary is never read.  The      *)
(* Sharpe ratio (mean - risk_free_rate) / std is kept as its numerator and  *)
(* the returns the standard deviation is taken of.                          *)

RECURSIVE RSum(_)
RSum(xs) == IF xs = <<>> THEN Zero ELSE RAdd(xs[1], RSum(Tail(xs)))

\* np.mean of a non-empty list
RMean(xs) == RDiv(RSum(xs), RInt(Len(xs)))

\* risk_free_rate (default argument)
risk_free_rate == <<1, 50>>

NoSharpe == [excess |-> Zero, std_of |-> <<>>]

\* RewardCalculator.calculate_sharpe_ratio_reward: 0.0 for no returns and for
\* returns without spread (np.std is 0 exactly when all returns are equal)
calculate_sharpe_ratio_reward(returns) ==
    IF Len(returns) = 0 THEN NoSharpe
    ELSE IF \A i \in 1..Len(returns) : returns[i] = returns[1] THEN NoSharpe
    ELSE [excess |-> RSub(RMean(returns), risk_free_rate), std_of |-> returns]

StatKeys ==
    {"total_trades", "win_rate", "avg_profit", "avg_loss", "total_pnl", "sharpe_ratio",
     "final_capital", "return_pct"}

\* the keys of the dictionary returned for an empty history
EmptyStatKeys ==
    {"total_trades", "win_rate", "avg_profit", "avg_loss", "total_pnl", "sharpe_ratio"}

\* state[k] of a numpy vector (k counted from 0) where it is long enough, 0
\* otherwise: `state[k] if len(state) > k else 0`
At0(state, k) == IF Len(state) > k THEN state[k + 1] ELSE Zero

\* np.clip(x, 0.0, 1.0)
Clip01(x) == RMax(Zero, RMin(x, One))

\* TradingEnvironment.calculate_profit_probability(state, action)
calculate_profit_probability(state, action) ==
    LET trend == At0(state, 8)
        sentiment == At0(state, 17)
        prob == IF action = 0
                THEN RAdd(RAdd(<<1, 2>>, RMul(trend, <<1, 5>>)), RMul(sentiment, <<1, 5>>))
                ELSE IF action = 2
                THEN RAdd(RAdd(<<1, 2>>, RMul(RNeg(trend), <<1, 5>>)),
                          RMul(RNeg(sentiment), <<1, 5>>))
                ELSE <<1, 2>>
    IN  Clip01(prob)

\* TradingEnvironment.get_trade_statistics
get_trade_statistics ==
    LET pnls == [i \in 1..Len(trade_history) |-> trade_history[i].pnl]
        wins == SelectSeq(pnls, LAMBDA x : RLt(Zero, x))
        losing == SelectSeq(pnls, LAMBDA x : RLt(x, Zero))
    IN  IF trade_history = <<>>
        THEN [keys |-> EmptyStatKeys, total_trades |-> 0, win_rate |-> Zero,
              avg_profit |-> Zero, avg_loss |-> Zero, total_pnl |-> Zero,
              sharpe_ratio |-> NoSharpe, final_capital |-> Zero, return_pct |-> Zero]
        ELSE [keys |-> StatKeys,
              total_trades |-> Len(trade_history),
              win_rate |-> Rat(Len(wins), Len(trade_history)),
              avg_profit |-> IF wins # <<>> THEN RMean(wins) ELSE Zero,
              avg_loss |-> IF losing # <<>> THEN RMean(losing) ELSE Zero,
              total_pnl |-> RSum(pnls),
              sharpe_ratio |-> calculate_sharpe_ratio_reward(pnls),
              final_capital |-> capital,
              return_pct |-> RMul(RDiv(RSub(capital, RInt(initial_capital)),
                                       RInt(initial_capital)), RInt(100))]

\* the keys render reads from the dictionary
RenderKeys == {"win_rate", "total_pnl", "return_pct"}

NoStats ==
    [op |-> "init", raised |-> FALSE,
     stats |-> [keys |-> {}, total_trades |-> 0, win_rate |-> Zero,
                avg_profit |-> Zero, avg_loss |-> Zero, total_pnl |-> Zero,
                sharpe_ratio |-> NoSharpe, final_capital |-> Zero, return_pct |-> Zero]]

GetTradeStatistics ==
    /\ UNCHANGED <<env_vars, agent_vars, sample_ret, persist_vars, infer_ret,
                   encoder_vars, train_stats_ret, trainer, calc_ret>>
    /\ stats_ret' = [op |-> "get_trade_statistics", raised |-> FALSE,
                     stats |-> get_trade_statistics]

\* TradingEnvironment.render(): a key that is not in the dictionary raises
\* KeyError
Render ==
    /\ UNCHANGED <<env_vars, agent_vars, sample_ret, persist_vars, infer_ret,
                   encoder_vars, train_stats_ret, trainer, calc_ret>>
    /\ stats_ret' = [op |-> "render", raised |-> ~(RenderKeys \subseteq get_trade_statistics.keys),
                     stats |-> get_trade_statistics]

----------------------------------------------------------------------------
(* ReplayBuffer and RLTradingAgent (rl_agent.py)                            *)
(*                                                                         *)
(* Network weights are not computed: the weights of a network are the       *)
(* sequence of optimizer steps that produced them from the construction-    *)
(* time weights (the empty sequence), each step named by the batch it was   *)
(* computed on, the dropout mask drawn in the policy network's forward pass *)
(* and the target weights its bootstrapped targets were read from.  Copying *)
(* a state dict copies that value.                                          *)

\* buffer_capacity, batch_size and target_update_freq are constructor
\* arguments; every agent with values up to these is explored
MaxCapacity == 2
BatchSizes == {1, 2}
TargetUpdateFreqs == {1, 2}
\* no more than this many pushes and updates are explored
MaxPushes == 4
MaxUpdates == 3
\* the dropout masks a forward pass of the policy network can draw
DropoutMasks == {"mask1", "mask2"}

\* epsilon_start, epsilon_end, epsilon_decay (constructor arguments)
\* gamma (constructor default)
gamma == <<99, 100>>
epsilon_start == One
epsilon_end == <<3, 10>>
epsilon_decay == <<1, 2>>

\* the transitions offered to store_experience: (state, action, reward,
\* next_state, done)
Transition(s, a, r, s2, d) ==
    [state |-> s, action |-> a, reward |-> r, next_state |-> s2, done |-> d]

Transitions ==
    { Transition(1, 0, Zero, 2, FALSE),
      Transition(2, 2, <<99, 100>>, 1, TRUE) }

\* mutant: a full buffer refuses the new entry instead of evicting the oldest
deque_append_keeps_oldest(buf, cap, x) ==
    IF Len(buf) >= cap THEN buf ELSE Append(buf, x)

\* deque(maxlen=capacity).append: drop the oldest entry when full
deque_append(buf, cap, x) ==
    IF Len(buf) >= cap THEN SubSeq(buf, Len(buf) - cap + 2, Len(buf)) \o <<x>>
    ELSE Append(buf, x)

\* the injective sequences of k positions of a sequence of length n
Picks(n, k) ==
    { p \in [1..k -> 1..n] : \A i, j \in 1..k : i # j => p[i] # p[j] }

\* random.sample(population, k) raises ValueError when k exceeds the
\* population (or is negative)
SampleRaises(buf, k) == k > Len(buf) \/ k < 0

\* ReplayBuffer.sample: the batches random.sample can return, each a sequence
\* of k transitions taken from distinct positions of the buffer
sample(buf, k) == { [i \in 1..k |-> buf[p[i]]] : p \in Picks(Len(buf), k) }

\* the fields of the agent, as a record
AgentFields ==
    [buffer |-> buffer, policy_net |-> policy_net, target_net |-> target_net,
     optimizer |-> optimizer, training_step |-> training_step,
     epsilon |-> epsilon, losses |-> losses]

AgentRet(op, raised, none, value, arg) ==
    [op |-> op, raised |-> raised, none |-> none, value |-> value, arg |-> arg,
     pre |-> AgentFields]

NoStep == [batch |-> <<>>, mask |-> "", target |-> <<>>]
NoTransition == Transition(0, 0, Zero, 0, FALSE)

AgentInit ==
    /\ capacity \in 1..MaxCapacity
    /\ batch_size \in BatchSizes
    /\ target_update_freq \in TargetUpdateFreqs
    /\ buffer = <<>>
    /\ policy_net = <<>>
    /\ target_net = policy_net
    /\ optimizer = <<>>
    /\ training_step = 0
    /\ epsilon = epsilon_start
    /\ losses = <<>>
    /\ pushed = <<>>
    /\ weights_log = <<policy_net>>
    /\ agent_ret = [op |-> "init", raised |-> FALSE, none |-> TRUE, value |-> NoStep,
                    arg |-> NoTransition,
                    pre |-> [buffer |-> <<>>, policy_net |-> <<>>, target_net |-> <<>>,
                             optimizer |-> <<>>, training_step |-> 0,
                             epsilon |-> epsilon_start, losses |-> <<>>]]

\* RLTradingAgent.store_experience -> ReplayBuffer.push
store_experience(t) ==
    /\ Len(pushed) < MaxPushes
    /\ buffer' = deque_append(buffer, capacity, t)
    /\ pushed' = Append(pushed, t)
    /\ agent_ret' = AgentRet("store_experience", FALSE, TRUE, NoStep, t)
    /\ UNCHANGED <<capacity, batch_size, target_update_freq, policy_net, target_net,
                   optimizer, training_step, epsilon, losses, weights_log>>

\* mutant: the guard lets a buffer one short of a batch through
NotEnoughData_off_by_one(n, bs) == n + 1 < bs

\* mutant: the synchronisation test reads the counter before its increment
TargetSyncDue_before_increment(n, freq) == (n - 1) % freq = 0

\* mutant: the decay is not clamped at epsilon_end
DecayEpsilon_unclamped(eps) == RMul(eps, epsilon_decay)

\* `if len(self.replay_buffer) < self.batch_size: return None`
NotEnoughData(n, bs) == n < bs

\* `if self.training_step % self.target_update_freq == 0`
TargetSyncDue(n, freq) == n % freq = 0

\* self.epsilon = max(self.epsilon_end, self.epsilon * self.epsilon_decay)
DecayEpsilon(eps) == RMax(epsilon_end, RMul(eps, epsilon_decay))

\* the output for `state` of a network of weights `net` in eval mode, reduced
\* by max over the actions: a term, the weights being symbolic
MaxQ(net, state) == [net |-> net, state |-> state]
NoQ == MaxQ(<<>>, 0)

\* the float product coeff * q of a factor and a term
Scaled(coeff, q) == IF coeff = Zero THEN [coeff |-> Zero, q |-> NoQ]
                    ELSE [coeff |-> coeff, q |-> q]

\* the learning targets computed from the policy network
target_q_values_from_policy(batch, tnet) ==
    [i \in 1..Len(batch) |->
        [reward |-> batch[i].reward,
         plus |-> Scaled(RMul(RSub(One, IF batch[i].done THEN One ELSE Zero), gamma),
                         MaxQ(policy_net, batch[i].next_state))]]

\* target_q_values = rewards + (1 - dones) * self.gamma * next_q_values, with
\* next_q_values = self.target_net(next_states).max(1)[0]
target_q_values(batch, tnet) ==
    [i \in 1..Len(batch) |->
        [reward |-> batch[i].reward,
         plus |-> Scaled(RMul(RSub(One, IF batch[i].done THEN One ELSE Zero), gamma),
                         MaxQ(tnet, batch[i].next_state))]]

\* the part of train_step after the sampling: optimizer step on the policy
\* network, step counter, target synchronisation, epsilon decay, loss record
Update(batch, mask) ==
    LET u == [batch |-> batch, mask |-> mask, target |-> target_net,
              targets |-> target_q_values(batch, target_net)]
    IN  /\ policy_net' = Append(policy_net, u)
        /\ optimizer' = Append(optimizer, u)
        /\ training_step' = training_step + 1
        /\ target_net' = IF TargetSyncDue(training_step', target_update_freq)
                         THEN policy_net' ELSE target_net
        /\ epsilon' = DecayEpsilon(epsilon)
        /\ losses' = Append(losses, u)
        /\ weights_log' = Append(weights_log, policy_net')
        /\ agent_ret' = AgentRet("train_step", FALSE, FALSE, u, NoTransition)

\* RLTradingAgent.train_step
train_step ==
    /\ UNCHANGED <<capacity, batch_size, target_update_freq, buffer, pushed>>
    /\ IF NotEnoughData(Len(buffer), batch_size)
       THEN /\ agent_ret' = AgentRet("train_step", FALSE, TRUE, NoStep, NoTransition)
            /\ UNCHANGED <<policy_net, target_net, optimizer, training_step,
                           epsilon, losses, weights_log>>
       ELSE IF SampleRaises(buffer, batch_size)
       THEN /\ agent_ret' = AgentRet("train_step", TRUE, FALSE, NoStep, NoTransition)
            /\ UNCHANGED <<policy_net, target_net, optimizer, training_step,
                           epsilon, losses, weights_log>>
       ELSE /\ Len(weights_log) <= MaxUpdates
            /\ \E batch \in sample(buffer, batch_size), mask \in DropoutMasks :
                   Update(batch, mask)

StoreExperience ==
    \E t \in Transitions : store_experience(t) /\ UNCHANGED <<env_vars, aux_vars>>
TrainStep == train_step /\ UNCHANGED <<env_vars, aux_vars>>

\* the batch sizes a caller passes to ReplayBuffer.sample
SampleSizes == 0..(MaxCapacity + 1)

\* zip(*batch): the five parallel sequences of a batch
Unzip(batch) ==
    [states |-> [i \in 1..Len(batch) |-> batch[i].state],
     actions |-> [i \in 1..Len(batch) |-> batch[i].action],
     rewards |-> [i \in 1..Len(batch) |-> batch[i].reward],
     next_states |-> [i \in 1..Len(batch) |-> batch[i].next_state],
     dones |-> [i \in 1..Len(batch) |-> batch[i].done]]

\* mutant: a short buffer yields the transitions it has
ReplayBuffer_sample_partial(buf, k) ==
    LET n == IF k < Len(buf) THEN k ELSE Len(buf)
    IN  [raised |-> n = 0, batches |-> IF n = 0 THEN {<<>>} ELSE sample(buf, n)]

\* ReplayBuffer.sample(batch_size): random.sample raises ValueError on a
\* population smaller than batch_size; unpacking zip(*batch) into five names
\* raises ValueError on an empty batch; otherwise any batch can be drawn
ReplayBuffer_sample(buf, k) ==
    IF SampleRaises(buf, k) \/ k = 0
    THEN [raised |-> TRUE, batches |-> {<<>>}]
    ELSE [raised |-> FALSE, batches |-> sample(buf, k)]

NoSample == [called |-> FALSE, k |-> 0, raised |-> FALSE, value |-> Unzip(<<>>),
             pre |-> <<>>, post |-> <<>>]

\* a call of replay_buffer.sample(k) from outside train_step
Sample ==
    \E k \in SampleSizes :
        LET out == ReplayBuffer_sample(buffer, k)
        IN  \E batch \in out.batches :
                /\ UNCHANGED <<env_vars, agent_vars, persist_vars, infer_ret,
                               encoder_vars, stats_ret,
                   train_stats_ret, trainer, calc_ret>>
                /\ sample_ret' = [called |-> TRUE, k |-> k, raised |-> out.raised,
                                  value |-> Unzip(batch), pre |-> buffer,
                                  post |-> buffer']

----------------------------------------------------------------------------
(* Persistence of the agent (rl_agent.py:290-337)                           *)
(*                                                                         *)
(* A path is its directory part, its base name and its extension.  A file   *)
(* is missing, a bundle written by torch.save or a sidecar written by       *)
(* json.dump.  The tensors of a state dict have the shapes the network was  *)
(* constructed with, so a bundle carries the dimensions of its agent.       *)

\* no more than this many agents are constructed
MaxAgents == 2


\* the (state_dim, action_dim) pairs agents are constructed with
Dims(sd, ad) == [state_dim |-> sd, action_dim |-> ad]
AgentDims == {Dims(128, 3), Dims(64, 3), Dims(128, 5)}

\* the random draws of construction-time weights of agents constructed later
Seeds == {"seed1", "seed2"}
FreshWeights(seed) == <<[batch |-> <<>>, mask |-> seed, target |-> <<>>]>>

\* the tensors of a DQN state dict: nn.Sequential numbers the Linear layers
\* 0, 3, 6 and 9 (ReLU and Dropout have no parameters)
Params ==
    {"network.0.weight", "network.0.bias", "network.3.weight", "network.3.bias",
     "network.6.weight", "network.6.bias", "network.9.weight", "network.9.bias"}

ParamShape(p, d) ==
    CASE p = "network.0.weight" -> <<256, d.state_dim>>
      [] p = "network.0.bias" -> <<256>>
      [] p = "network.3.weight" -> <<128, 256>>
      [] p = "network.3.bias" -> <<128>>
      [] p = "network.6.weight" -> <<64, 128>>
      [] p = "network.6.bias" -> <<64>>
      [] p = "network.9.weight" -> <<d.action_dim, 64>>
      [] p = "network.9.bias" -> <<d.action_dim>>

\* nn.Module.load_state_dict(strict=True) on a network of dimensions own_dims
\* holding weights own, given the state dict src of a network of dimensions
\* src_dims: every tensor whose shape agrees is copied in place, every other
\* is reported, and RuntimeError is raised at the end if any was reported.
\* The weights left by a partial copy are own followed by that copy step.
load_state_dict(own, own_dims, src, src_dims) ==
    LET copied == { p \in Params : ParamShape(p, own_dims) = ParamShape(p, src_dims) }
    IN  IF copied = Params
        THEN [raised |-> FALSE, value |-> src]
        ELSE [raised |-> TRUE, value |-> Append(own, [copied |-> copied, from |-> src])]

Path(dir, base, ext) == [dir |-> dir, base |-> base, ext |-> ext]

\* the paths given to save_model and load_model
SavePaths ==
    {Path("models", "agent", ".pth"), Path("models", "agent", ".pt"),
     Path("", "agent", ".pth")}

\* a checkpoint another run left on disk
OldPath == Path("models", "old", ".pth")

\* os.path.dirname(path)
dirname(path) == path.dir

\* path.replace('.pth', '_config.json'); no directory or base name of the
\* paths above contains '.pth'
ConfigPath(path) ==
    IF path.ext = ".pth" THEN [path EXCEPT !.ext = "_config.json"] ELSE path

\* save_path of RLTrainer.train (default argument)
TrainerSavePath == Path("./models", "rl_trading_agent", ".pth")

AllPaths ==
    SavePaths \cup {ConfigPath(p) : p \in SavePaths} \cup {OldPath}
    \cup {TrainerSavePath, ConfigPath(TrainerSavePath)}

NoFile == [kind |-> "missing"]

\* what save_model hands to torch.save
Bundle ==
    [kind |-> "bundle", dims |-> dims,
     policy_net_state_dict |-> policy_net, target_net_state_dict |-> target_net,
     optimizer_state_dict |-> optimizer, epsilon |-> epsilon,
     training_step |-> training_step, episode_rewards |-> episode_rewards]

\* what save_model hands to json.dump
Sidecar ==
    [kind |-> "sidecar", state_dim |-> dims.state_dim, action_dim |-> dims.action_dim,
     gamma |-> gamma, epsilon |-> epsilon, training_step |-> training_step]

\* the bundle of an agent of dimensions d that made one update and recorded
\* two episode rewards before it was saved
TrainedBundle(d) ==
    LET u == [batch |-> <<Transition(1, 0, Zero, 2, FALSE)>>, mask |-> "mask1",
              target |-> <<>>]
    IN  [kind |-> "bundle", dims |-> d,
         policy_net_state_dict |-> <<u>>, target_net_state_dict |-> <<u>>,
         optimizer_state_dict |-> <<u>>, epsilon |-> DecayEpsilon(epsilon_start),
         training_step |-> 1, episode_rewards |-> <<RInt(1), RInt(3)>>]

OldBundles == { TrainedBundle(d) : d \in AgentDims }

\* what save_model writes and load_model restores
Persisted ==
    [policy_net |-> policy_net, target_net |-> target_net, optimizer |-> optimizer,
     epsilon |-> epsilon, training_step |-> training_step,
     episode_rewards |-> episode_rewards]

IoRet(op, path, raised) ==
    [op |-> op, path |-> path, raised |-> raised, agent |-> agent_id,
     pre_dims |-> dims, pre |-> Persisted, post |-> Persisted',
     files_pre |-> files, files_post |-> files']

NoSave == [done |-> FALSE, by |-> 0, path |-> OldPath, dims |-> Dims(0, 0),
           fields |-> [policy_net |-> <<>>, target_net |-> <<>>, optimizer |-> <<>>,
                       epsilon |-> Zero, training_step |-> 0, episode_rewards |-> <<>>]]

PersistInit ==
    /\ saved = NoSave
    /\ dims = Dims(128, 3)
    /\ episode_rewards = <<>>
    /\ agent_id = 1
    /\ files = [p \in AllPaths |-> NoFile]
    /\ io_ret = [op |-> "init", path |-> OldPath, raised |-> FALSE, agent |-> 1,
                 pre_dims |-> dims,
                 pre |-> [policy_net |-> <<>>, target_net |-> <<>>, optimizer |-> <<>>,
                          epsilon |-> epsilon_start, training_step |-> 0,
                          episode_rewards |-> <<>>],
                 post |-> [policy_net |-> <<>>, target_net |-> <<>>, optimizer |-> <<>>,
                           epsilon |-> epsilon_start, training_step |-> 0,
                           episode_rewards |-> <<>>],
                 files_pre |-> files, files_post |-> files]

\* RLTradingAgent(state_dim, action_dim): a new agent takes the place of the
\* one before
construct(d, seed) ==
    /\ agent_id < MaxAgents
    /\ agent_id' = agent_id + 1
    /\ dims' = d
    /\ buffer' = <<>>
    /\ policy_net' = FreshWeights(seed)
    /\ target_net' = policy_net'
    /\ optimizer' = <<>>
    /\ training_step' = 0
    /\ epsilon' = epsilon_start
    /\ losses' = <<>>
    /\ episode_rewards' = <<>>
    /\ pushed' = <<>>
    /\ weights_log' = <<policy_net'>>
    /\ UNCHANGED <<capacity, batch_size, target_update_freq, agent_ret, files, saved>>
    /\ io_ret' = IoRet("construct", OldPath, FALSE)

\* RLTradingAgent.save_model
save_model(path) ==
    /\ UNCHANGED <<agent_vars, dims, episode_rewards, agent_id>>
    /\ IF dirname(path) = ""
       THEN \* os.makedirs('') raises FileNotFoundError
            /\ UNCHANGED <<files, saved>>
            /\ io_ret' = IoRet("save_model", path, TRUE)
       ELSE /\ files' = [[files EXCEPT ![path] = Bundle]
                            EXCEPT ![ConfigPath(path)] = Sidecar]
            /\ saved' = [done |-> TRUE, by |-> agent_id, path |-> path, dims |-> dims,
                         fields |-> Persisted]
            /\ io_ret' = IoRet("save_model", path, FALSE)

\* RLTradingAgent.load_model
load_model(path) ==
    LET checkpoint == files[path]
        p == load_state_dict(policy_net, dims,
                             checkpoint.policy_net_state_dict, checkpoint.dims)
        t == load_state_dict(target_net, dims,
                             checkpoint.target_net_state_dict, checkpoint.dims)
    IN  /\ UNCHANGED <<capacity, batch_size, target_update_freq, buffer, losses,
                       agent_ret, pushed, weights_log, dims, agent_id, files, saved>>
        /\ IF checkpoint.kind # "bundle"
           THEN \* torch.load raises on a missing file and on a file that is
                \* not a pickle
                /\ UNCHANGED <<policy_net, target_net, optimizer, training_step,
                               epsilon, episode_rewards>>
                /\ io_ret' = IoRet("load_model", path, TRUE)
           ELSE IF p.raised
           THEN /\ Len(policy_net) < MaxUpdates
                /\ policy_net' = p.value
                /\ UNCHANGED <<target_net, optimizer, training_step, epsilon,
                               episode_rewards>>
                /\ io_ret' = IoRet("load_model", path, TRUE)
           ELSE /\ policy_net' = p.value
                /\ target_net' = t.value
                /\ optimizer' = checkpoint.optimizer_state_dict
                /\ epsilon' = checkpoint.epsilon
                /\ training_step' = checkpoint.training_step
                /\ episode_rewards' = checkpoint.episode_rewards
                /\ io_ret' = IoRet("load_model", path, FALSE)

Construct ==
    \E d \in AgentDims, seed \in Seeds :
        construct(d, seed) /\ UNCHANGED <<env_vars, sample_ret, infer_ret, encoder_vars, stats_ret,
                   train_stats_ret, trainer, calc_ret>>
SaveModel ==
    \E path \in SavePaths : save_model(path) /\ UNCHANGED <<env_vars, sample_ret, infer_ret, encoder_vars, stats_ret,
                   train_stats_ret, trainer, calc_ret>>
LoadModel ==
    \E path \in SavePaths \cup {OldPath} :
        load_model(path) /\ UNCHANGED <<env_vars, sample_ret, infer_ret, encoder_vars, stats_ret,
                   train_stats_ret, trainer, calc_ret>>

----------------------------------------------------------------------------
(* Training statistics (rl_agent.py:339-361)                                *)
(*                                                                         *)
(* Nothing in RLTradingAgent appends to episode_rewards: it is empty unless *)
(* load_model read a non-empty list from a checkpoint.  A mean of losses is *)
(* kept as the list it is the mean of.                                      *)

\* the window of the rolling means
StatsWindow == 100

\* seq[-n:]
LastN(seq, n) == IF Len(seq) <= n THEN seq ELSE SubSeq(seq, Len(seq) - n + 1, Len(seq))

TrainingStatKeys ==
    {"total_episodes", "avg_reward", "avg_loss", "epsilon", "training_steps",
     "buffer_size"}

\* the keys of the dictionary returned while episode_rewards is empty
NoEpisodeStatKeys == {"total_episodes", "avg_reward", "avg_loss", "epsilon"}

\* np.mean(self.losses[-100:]) if self.losses else 0.0
LossMean(ls) == [mean_of |-> LastN(ls, StatsWindow)]

\* RLTradingAgent.get_training_stats
get_training_stats ==
    IF episode_rewards = <<>>
    THEN [keys |-> NoEpisodeStatKeys, total_episodes |-> 0, avg_reward |-> Zero,
          avg_loss |-> LossMean(<<>>), epsilon |-> epsilon, training_steps |-> 0,
          buffer_size |-> 0]
    ELSE [keys |-> TrainingStatKeys,
          total_episodes |-> Len(episode_rewards),
          avg_reward |-> RMean(LastN(episode_rewards, StatsWindow)),
          avg_loss |-> LossMean(losses),
          epsilon |-> epsilon,
          training_steps |-> training_step,
          buffer_size |-> Len(buffer)]

NoTrainStats ==
    [op |-> "init",
     stats |-> [keys |-> {}, total_episodes |-> 0, avg_reward |-> Zero,
                avg_loss |-> LossMean(<<>>), epsilon |-> Zero, training_steps |-> 0,
                buffer_size |-> 0],
     pre |-> [buffer |-> <<>>, training_step |-> 0, epsilon |-> Zero, losses |-> <<>>,
              episode_rewards |-> <<>>]]

GetTrainingStats ==
    /\ UNCHANGED <<env_vars, agent_vars, sample_ret, persist_vars, infer_ret,
                   encoder_vars, stats_ret, trainer, calc_ret>>
    /\ train_stats_ret' =
           [op |-> "get_training_stats", stats |-> get_training_stats,
            pre |-> [buffer |-> buffer, training_step |-> training_step,
                     epsilon |-> epsilon, losses |-> losses,
                     episode_rewards |-> episode_rewards]]

----------------------------------------------------------------------------
(* Action selection and action probabilities (rl_agent.py:162-225)          *)
(*                                                                         *)
(* The policy network is a function of its weights, its input and the       *)
(* dropout mask of the forward pass: __init__ calls eval() on the target    *)
(* network only, so the policy network stays in training mode and its       *)
(* Dropout(0.2) layers draw a mask in every forward pass, also under        *)
(* torch.no_grad().  The function is not computed: a forward pass returns   *)
(* any vector of Q-values, but the same vector as the call before it when   *)
(* weights, input and mask are the same.                                    *)

\* the state vectors passed in
ProbeStates == {1, 2}

\* the Q-value vectors a forward pass can return for action_dim actions
QValues(ad) ==
    { [i \in 1..ad |-> 0],
      [i \in 1..ad |-> IF i = 1 THEN 0 ELSE 1],
      [i \in 1..ad |-> IF i = 1 THEN 1 ELSE 0] }

SeqMax(q) == CHOOSE v \in {q[i] : i \in 1..Len(q)} : \A i \in 1..Len(q) : q[i] <= v

\* q_values.argmax().item(): the index of the first maximal entry
argmax(q) ==
    (CHOOSE i \in 1..Len(q) :
        q[i] = SeqMax(q) /\ \A j \in 1..(i - 1) : q[j] < q[i]) - 1

\* torch.softmax(q_values): exp(q_i) / sum_j exp(q_j).  A distribution is
\* represented by the logarithms of its entries relative to the largest,
\* q_i - max(q), which determine it and are determined by it.
softmax(q) == [i \in 1..Len(q) |-> q[i] - SeqMax(q)]

\* {name: prob for name, prob in zip(action_names, probabilities)}
ZipNames(names, probs) ==
    [i \in 1..Min(Len(names), Len(probs)) |-> [name |-> names[i], prob |-> probs[i]]]

\* self.policy_net(state_tensor): the (mask, Q-values) pairs of a forward pass
Forward(s) ==
    { [mask |-> mask, q |-> q] : mask \in DropoutMasks, q \in QValues(dims.action_dim) }
    \ { o \in [mask : DropoutMasks, q : QValues(dims.action_dim)] :
          /\ infer_ret.mask = o.mask
          /\ infer_ret.w = policy_net
          /\ infer_ret.s = s
          /\ infer_ret.q # o.q }

\* random.random() < self.epsilon, for random.random() in [0, 1)
ExploreOutcomes(training) ==
    { b \in BOOLEAN : /\ b => (training /\ RLt(Zero, epsilon))
                      /\ ~b => (~training \/ RLt(epsilon, One)) }

InferSummary(r) ==
    [op |-> r.op, agent |-> r.agent, training |-> r.training, s |-> r.s, w |-> r.w,
     explore |-> r.explore, action |-> r.action, probs |-> r.probs]

InferRet(op, training, s, explore, mask, q, action, probs) ==
    [op |-> op, agent |-> agent_id, training |-> training, s |-> s, w |-> policy_net,
     action_dim |-> dims.action_dim, explore |-> explore, mask |-> mask, q |-> q,
     action |-> action, probs |-> probs, prev |-> InferSummary(infer_ret)]

NoInfer ==
    [op |-> "init", agent |-> 0, training |-> FALSE, s |-> 0, w |-> <<>>,
     action_dim |-> 0, explore |-> FALSE, mask |-> "", q |-> <<>>, action |-> 0,
     probs |-> <<>>,
     prev |-> [op |-> "init", agent |-> 0, training |-> FALSE, s |-> 0, w |-> <<>>,
               explore |-> FALSE, action |-> 0, probs |-> <<>>]]

\* RLTradingAgent.select_action
select_action(s, training) ==
    \E explore \in ExploreOutcomes(training) :
        IF explore
        THEN \E a \in 0..(dims.action_dim - 1) :
                 infer_ret' = InferRet("select_action", training, s, TRUE, "", <<>>, a, <<>>)
        ELSE \E o \in Forward(s) :
                 infer_ret' = InferRet("select_action", training, s, FALSE, o.mask, o.q,
                                       argmax(o.q), <<>>)

\* RLTradingAgent.get_all_action_probabilities
get_all_action_probabilities(s) ==
    \E o \in Forward(s) :
        infer_ret' = InferRet("get_all_action_probabilities", FALSE, s, FALSE, o.mask,
                              o.q, 0, ZipNames(ActionNames3, softmax(o.q)))

SelectAction ==
    \E s \in ProbeStates, training \in BOOLEAN :
        /\ select_action(s, training)
        /\ UNCHANGED <<env_vars, agent_vars, sample_ret, persist_vars, encoder_vars, stats_ret,
                   train_stats_ret, trainer, calc_ret>>
GetAllActionProbabilities ==
    \E s \in ProbeStates :
        /\ get_all_action_probabilities(s)
        /\ UNCHANGED <<env_vars, agent_vars, sample_ret, persist_vars, encoder_vars, stats_ret,
                   train_stats_ret, trainer, calc_ret>>

----------------------------------------------------------------------------
(* StateEncoder.encode called directly (rl_state_encoder.py:24-78)          *)

\* the state_dim values encoders are constructed with
EncoderDims == {1, 12, 20, 28, 29, 30, 128}

\* a market report, a fundamentals report, a news report, a sentiment report
\* and an options report, all with matches
TextMapping ==
    Mapping([kind |-> "text", kw |-> {"bearish"},
             num |-> [p \in {"rsi", "atr"} |-> IF p = "rsi" THEN RInt(70) ELSE RInt(2)],
             cnt |-> 0],
            [kind |-> "text", kw |-> {},
             num |-> [p \in {"pe_ratio", "roe"} |-> IF p = "roe" THEN RInt(12) ELSE RInt(20)],
             cnt |-> 0],
            [kind |-> "text", kw |-> {"negative", "minor"}, num |-> EmptyNum, cnt |-> 12],
            [kind |-> "text", kw |-> {"bullish", "strong"}, num |-> EmptyNum, cnt |-> 0],
            [kind |-> "text", kw |-> {"put", "spread"},
             num |-> [p \in {"rho", "put_call"} |-> IF p = "rho" THEN RInt(3) ELSE <<3, 2>>],
             cnt |-> 0],
            "options")

\* what a mapping can hold for a report besides a text with matches: no key,
\* the empty string, None
Blanks == {AbsentReport, EmptyText, NoneReport}

\* the mappings passed to encode: four mappings, and two of them with one
\* report blanked
EncodeMappings ==
    {EmptyMapping, BullishMapping, OptionsMapping, TextMapping}
    \cup { [m EXCEPT ![ReportKeys[i]] = b] :
              m \in {EmptyMapping, TextMapping}, i \in 1..Len(ReportKeys), b \in Blanks }

NoEncode ==
    [called |-> FALSE, m |-> EmptyMapping, raised |-> FALSE, vec |-> <<>>,
     pre |-> [state_dim |-> 0], post |-> [state_dim |-> 0],
     prev |-> [called |-> FALSE, m |-> EmptyMapping, raised |-> FALSE, vec |-> <<>>]]

EncoderInit ==
    /\ encoder \in [state_dim : EncoderDims]
    /\ enc_ret = NoEncode

\* state_encoder.encode(m)
Encode ==
    \E m \in EncodeMappings :
        LET out == encode(m, encoder.state_dim)
        IN  /\ UNCHANGED <<env_vars, agent_vars, sample_ret, persist_vars, infer_ret,
                           encoder, stats_ret, train_stats_ret, trainer, calc_ret>>
            /\ enc_ret' = [called |-> TRUE, m |-> m, raised |-> out.raised,
                           vec |-> out.vec, pre |-> encoder, post |-> encoder',
                           prev |-> [called |-> enc_ret.called, m |-> enc_ret.m,
                                     raised |-> enc_ret.raised, vec |-> enc_ret.vec]]

----------------------------------------------------------------------------
(* RLTrainer.train (rl_trainer.py:67-177)                                   *)
(*                                                                         *)
(* train() is cut into the start of an episode (the analysis pipeline and   *)
(* reset), one iteration of the inner loop, the end of an episode (records, *)
(* progress report, checkpoint) and the final save.  The pipeline returns a *)
(* mapping and does not fail.  The trainer's lists are kept as their        *)
(* length; what is only printed or plotted is not kept.  RLTrainer builds   *)
(* its agent with the default buffer_capacity and batch_size (10000, 64);   *)
(* the runs here make fewer than 64 steps, so train_step returns at its     *)
(* guard in every iteration, and the buffer is one of a capacity below its  *)
(* batch size.                                                              *)

\* `if (episode + 1) % 10 == 0` and `if (episode + 1) % 100 == 0`
ReportEvery == 10
CheckpointEvery == 100

\* the episode counts trainers are constructed with
EpisodeCounts == {2, 10}

\* what the pipeline returns and the prices of the simulated walk
TrainerMappings == {BullishMapping}
TrainerPrices == {RInt(100), RInt(110)}

\* the keys of get_training_stats the progress report reads
ReportKeys_rl == {"epsilon", "buffer_size"}

\* no train() call
NoTrainer ==
    [pc |-> "idle", episodes |-> 0, episode |-> 0, step |-> 0, mapping |-> EmptyMapping,
     state |-> <<>>, price |-> Zero, recorded |-> 0, reports |-> 0, checkpoints |-> 0]

TrainerInit ==
    \E n \in EpisodeCounts : trainer = [NoTrainer EXCEPT !.pc = "start", !.episodes = n]

\* the head of the episode loop: propagate, the mock price, env.reset
TrainerStartEpisode ==
    /\ trainer.pc = "start"
    /\ \E m \in TrainerMappings, price \in TrainerPrices :
           /\ reset(m)
           /\ trainer' = [trainer EXCEPT !.pc = IF env_ret'.raised THEN "crashed" ELSE "loop",
                                         !.step = 0, !.mapping = m,
                                         !.state = env_ret'.state, !.price = price]
    /\ UNCHANGED <<agent_vars, sample_ret, persist_vars, infer_ret, encoder_vars,
                   stats_ret, train_stats_ret, calc_ret>>

\* one iteration of the inner loop: select_action(state, training=True), the
\* next price, env.step, store_experience, train_step, `if done: break`
TrainerIteration ==
    /\ trainer.pc = "loop"
    /\ \E explore \in ExploreOutcomes(TRUE), next_price \in TrainerPrices :
         \E a \in IF explore THEN 0..(dims.action_dim - 1)
                   ELSE {argmax(o.q) : o \in Forward(trainer.state)} :
           /\ step(a, trainer.mapping, next_price)
           /\ buffer' = deque_append(buffer, capacity,
                             Transition(trainer.state, a, env_ret'.reward,
                                        env_ret'.state, env_ret'.done))
           /\ NotEnoughData(Len(buffer'), batch_size)
           /\ agent_ret' = AgentRet("train_step", FALSE, TRUE, NoStep, NoTransition)
           /\ trainer' = [trainer EXCEPT
                  !.pc = IF env_ret'.raised THEN "crashed"
                         ELSE IF env_ret'.done \/ trainer.step + 1 >= max_steps THEN "end"
                         ELSE "loop",
                  !.step = trainer.step + 1,
                  !.state = env_ret'.state,
                  !.price = next_price]
    /\ UNCHANGED <<capacity, batch_size, target_update_freq, policy_net, target_net,
                   optimizer, training_step, epsilon, losses, pushed, weights_log,
                   sample_ret, persist_vars, infer_ret, encoder_vars, stats_ret,
                   train_stats_ret, calc_ret>>

\* after the inner loop: the three appends, the progress report of every
\* tenth episode, the checkpoint of every hundredth
TrainerEndEpisode ==
    LET n == trainer.episode + 1
        report == n % ReportEvery = 0
        failed == \/ ~("win_rate" \in get_trade_statistics.keys)
                  \/ report /\ ~(ReportKeys_rl \subseteq get_training_stats.keys)
        checkpoint == ~failed /\ n % CheckpointEvery = 0
    IN  /\ trainer.pc = "end"
        /\ IF checkpoint
           THEN save_model(TrainerSavePath)
           ELSE UNCHANGED <<agent_vars, persist_vars>>
        /\ trainer' = [trainer EXCEPT
               !.pc = IF failed \/ (checkpoint /\ io_ret'.raised) THEN "crashed"
                      ELSE IF n = trainer.episodes THEN "final" ELSE "start",
               !.episode = n,
               !.recorded = trainer.recorded + 1,
               !.reports = IF report /\ ~failed THEN trainer.reports + 1
                           ELSE trainer.reports,
               !.checkpoints = IF checkpoint THEN trainer.checkpoints + 1
                               ELSE trainer.checkpoints]
        /\ UNCHANGED <<env_vars, sample_ret, infer_ret, encoder_vars, stats_ret,
                       train_stats_ret, calc_ret>>

\* after the episode loop: the final save
TrainerFinish ==
    /\ trainer.pc = "final"
    /\ save_model(TrainerSavePath)
    /\ trainer' = [trainer EXCEPT !.pc = IF io_ret'.raised THEN "crashed" ELSE "done"]
    /\ UNCHANGED <<env_vars, sample_ret, infer_ret, encoder_vars, stats_ret,
                   train_stats_ret, calc_ret>>

----------------------------------------------------------------------------
(* Calls of the functions that only compute *)

\* no call yet
NoCalc == [op |-> "init", raised |-> FALSE, value |-> Zero]

\* the arguments calculate_reward is called with
RewardActions == {"BUY", "SELL", "HOLD", "CLOSE"}
RewardPrices == {Zero, RInt(90), RInt(100), RInt(110)}
Volatilities == {NoFloat, SomeFloat(Zero), SomeFloat(<<1, 5>>), SomeFloat(<<1, 2>>)}

\* a calculate_reward call of a RewardCalculator with the default parameters
CalculateReward ==
    /\ \E action \in RewardActions, entry \in RewardPrices, exit \in RewardPrices,
          volatility \in Volatilities :
           LET r == calculate_reward(action, entry, exit, volatility)
           IN  calc_ret' = [op |-> "calculate_reward", raised |-> r.raised,
                            value |-> r.value, action |-> action, entry |-> entry,
                            exit |-> exit, volatility |-> volatility]
    /\ UNCHANGED <<env_vars, agent_vars, sample_ret, persist_vars, infer_ret,
                   encoder_vars, stats_ret, train_stats_ret, trainer>>

\* the arguments calculate_win_rate_reward is called with
TradeCounts == 0..3
AverageWins == {Zero, RInt(10), RInt(25)}
AverageLosses == {Zero, RInt(-5), RInt(-10), RInt(5)}

CalculateWinRateReward ==
    /\ \E wins \in TradeCounts, n_losses \in TradeCounts, avg_win \in AverageWins,
          avg_loss \in AverageLosses :
           LET r == calculate_win_rate_reward(wins, n_losses, avg_win, avg_loss)
           IN  calc_ret' = [op |-> "calculate_win_rate_reward", raised |-> r.raised,
                            value |-> r.value, wins |-> wins, losses |-> n_losses,
                            avg_win |-> avg_win, avg_loss |-> avg_loss]
    /\ UNCHANGED <<env_vars, agent_vars, sample_ret, persist_vars, infer_ret,
                   encoder_vars, stats_ret, train_stats_ret, trainer>>

\* the state vectors calculate_profit_probability is called with: what
\* encoders of the dimensions in ProfitDims make of mappings without a None
ProfitMappings == { m \in EncodeMappings : ~encode(m, state_dim).raised }
ProfitDims == { d \in EncoderDims : d <= state_dim }

CalculateProfitProbability ==
    /\ \E m \in ProfitMappings, dim \in ProfitDims, action \in 0..(action_space_n - 1) :
           LET state == encode(m, dim).vec
           IN  calc_ret' = [op |-> "calculate_profit_probability", raised |-> FALSE,
                            value |-> calculate_profit_probability(state, action),
                            mapping |-> m, state |-> state, action |-> action]
    /\ UNCHANGED <<env_vars, agent_vars, sample_ret, persist_vars, infer_ret,
                   encoder_vars, stats_ret, train_stats_ret, trainer>>

----------------------------------------------------------------------------
(* Specifications *)

AuxInit ==
    /\ sample_ret = NoSample
    /\ PersistInit
    /\ infer_ret = NoInfer
    /\ encoder = [state_dim |-> state_dim]
    /\ enc_ret = NoEncode
    /\ stats_ret = NoStats
    /\ train_stats_ret = NoTrainStats
    /\ trainer = NoTrainer
    /\ calc_ret = NoCalc

Init == EnvInit /\ AgentInit /\ AuxInit

\* the environment alone, beside one freshly constructed agent
EnvNext == Reset \/ Step \/ StepOptions
EnvSpecInit ==
    /\ Init
    /\ capacity = 1
    /\ batch_size = 1
    /\ target_update_freq = 1
EnvSpec == EnvSpecInit /\ [][EnvNext]_vars

\* the environment with its statistics read at any point of episodes of
\* purchases and sales in one market, or of option trades
StatsReset == reset(BullishMapping) /\ UNCHANGED <<agent_vars, aux_vars>>
StatsStep ==
    \E action \in {0, 2}, price \in {RInt(100), RInt(110)} :
        step(action, BullishMapping, price) /\ UNCHANGED <<agent_vars, aux_vars>>
StatsStepOptions ==
    \E t \in OptionsTrades :
        step_options(t, OptionsMapping) /\ UNCHANGED <<agent_vars, aux_vars>>
StatsNext ==
    StatsReset \/ StatsStep \/ StatsStepOptions \/ GetTradeStatistics \/ Render
StatsSpec == EnvSpecInit /\ [][StatsNext]_vars

\* the agent alone, beside a freshly constructed environment
AgentNext == StoreExperience \/ TrainStep
AgentSpec == Init /\ [][AgentNext]_vars

\* the replay buffer alone: pushes and direct samples
BufferNext == StoreExperience \/ Sample
BufferSpec == Init /\ [][BufferNext]_vars

\* construction, saving and loading of agents, with a checkpoint of another
\* run on disk
PersistNext == Construct \/ SaveModel \/ LoadModel
PersistSpecInit ==
    /\ EnvInit
    /\ AgentInit
    /\ capacity = 1
    /\ batch_size = 1
    /\ target_update_freq = 1
    /\ sample_ret = NoSample
    /\ infer_ret = NoInfer
    /\ encoder = [state_dim |-> state_dim]
    /\ enc_ret = NoEncode
    /\ stats_ret = NoStats
    /\ train_stats_ret = NoTrainStats
    /\ trainer = NoTrainer
    /\ calc_ret = NoCalc
    /\ saved = NoSave
    /\ dims = Dims(128, 3)
    /\ episode_rewards = <<>>
    /\ agent_id = 1
    /\ \E old \in OldBundles \cup {NoFile} :
           files = [p \in AllPaths |-> IF p = OldPath THEN old ELSE NoFile]
    /\ io_ret = [op |-> "init", path |-> OldPath, raised |-> FALSE, agent |-> 1,
                 pre_dims |-> dims, pre |-> Persisted, post |-> Persisted,
                 files_pre |-> files, files_post |-> files]
PersistSpec == PersistSpecInit /\ [][PersistNext]_vars

\* action selection on fresh and restored agents
InferNext == LoadModel \/ SelectAction
InferSpec == PersistSpecInit /\ [][InferNext]_vars

\* a save by one agent, a load by the next agent of the same dimensions, and
\* their action probabilities for one state
RoundTripInit == PersistSpecInit /\ files[OldPath] = TrainedBundle(dims)
RoundTripConstruct ==
    \E seed \in Seeds :
        construct(dims, seed) /\ UNCHANGED <<env_vars, sample_ret, infer_ret, encoder_vars, stats_ret,
                   train_stats_ret, trainer, calc_ret>>
RoundTripSave ==
    \E path \in {Path("models", "agent", ".pth")} :
        save_model(path) /\ UNCHANGED <<env_vars, sample_ret, infer_ret, encoder_vars, stats_ret,
                   train_stats_ret, trainer, calc_ret>>
RoundTripLoad ==
    \E path \in {Path("models", "agent", ".pth"), OldPath} :
        load_model(path) /\ UNCHANGED <<env_vars, sample_ret, infer_ret, encoder_vars, stats_ret,
                   train_stats_ret, trainer, calc_ret>>
RoundTripProbe ==
    /\ get_all_action_probabilities(1)
    /\ UNCHANGED <<env_vars, agent_vars, sample_ret, persist_vars, encoder_vars, stats_ret,
                   train_stats_ret, trainer, calc_ret>>
RoundTripNext == RoundTripConstruct \/ RoundTripSave \/ RoundTripLoad \/ RoundTripProbe
RoundTripSpec == RoundTripInit /\ [][RoundTripNext]_vars

\* encoders of every dimension in EncoderDims, beside a fresh environment and
\* a fresh agent
EncoderSpecInit ==
    /\ EnvInit
    /\ AgentInit
    /\ capacity = 1
    /\ batch_size = 1
    /\ target_update_freq = 1
    /\ sample_ret = NoSample
    /\ PersistInit
    /\ infer_ret = NoInfer
    /\ EncoderInit
    /\ stats_ret = NoStats
    /\ train_stats_ret = NoTrainStats
    /\ trainer = NoTrainer
    /\ calc_ret = NoCalc
EncoderSpec == EncoderSpecInit /\ [][Encode]_vars

\* an agent that stores, trains and loads, with its statistics read at any
\* point
TrainStatsStore ==
    store_experience(Transition(1, 0, Zero, 2, FALSE)) /\ UNCHANGED <<env_vars, aux_vars>>
TrainStatsLoad ==
    load_model(OldPath) /\ UNCHANGED <<env_vars, sample_ret, infer_ret, encoder_vars,
                                       stats_ret, train_stats_ret, trainer, calc_ret>>
TrainStatsNext == TrainStatsStore \/ TrainStep \/ TrainStatsLoad \/ GetTrainingStats
TrainStatsSpec == RoundTripInit /\ [][TrainStatsNext]_vars

\* a train() call of a trainer with EpisodeCounts episodes
TrainerNext ==
    TrainerStartEpisode \/ TrainerIteration \/ TrainerEndEpisode \/ TrainerFinish
TrainerSpecInit ==
    /\ EnvInit
    /\ AgentInit
    /\ capacity = 1
    /\ batch_size = 2
    /\ target_update_freq = 1
    /\ sample_ret = NoSample
    /\ PersistInit
    /\ infer_ret = NoInfer
    /\ encoder = [state_dim |-> state_dim]
    /\ enc_ret = NoEncode
    /\ stats_ret = NoStats
    /\ train_stats_ret = NoTrainStats
    /\ TrainerInit
    /\ calc_ret = NoCalc
TrainerSpec == TrainerSpecInit /\ [][TrainerNext]_vars

\* calculate_reward on its own
RewardSpec == EnvSpecInit /\ [][CalculateReward]_vars

\* calculate_win_rate_reward on its own
WinRateSpec == EnvSpecInit /\ [][CalculateWinRateReward]_vars

\* calculate_profit_probability on encoded states
ProfitSpec == EnvSpecInit /\ [][CalculateProfitProbability]_vars

Next == EnvNext \/ AgentNext \/ Sample \/ PersistNext \/ SelectAction
            \/ GetAllActionProbabilities \/ Encode \/ GetTradeStatistics \/ Render
            \/ GetTrainingStats \/ TrainerNext \/ CalculateReward
            \/ CalculateWinRateReward \/ CalculateProfitProbability
Spec == Init /\ [][Next]_vars

----------------------------------------------------------------------------
(* Claims *)

\* C1: after n pushes on a buffer of capacity C the buffer has min(n, C)
\* entries, never more than C, and they are the most recent min(n, C) pushed
\* transitions in push order (the oldest evicted first).
C1_BufferHoldsMostRecent ==
    /\ Len(buffer) = Min(Len(pushed), capacity)
    /\ Len(buffer) <= capacity
    /\ buffer = SubSeq(pushed, Len(pushed) - Min(Len(pushed), capacity) + 1, Len(pushed))

\* a push evicted the oldest transition, which differs from what is kept
C1_Witness ==
    /\ agent_ret.op = "store_experience"
    /\ Len(pushed) = capacity + 2
    /\ capacity = 2
    /\ pushed[1] # pushed[3]
    /\ buffer = <<pushed[3], pushed[4]>>

\* a step call that decoded SELL while the position was long and returned
SoldWhileLong ==
    /\ env_ret.op = "step"
    /\ ~env_ret.raised
    /\ env_ret.action_str = "SELL"
    /\ env_ret.pre.position = 1

\* C2: a step that sells while long and returns has reward =
\* calculate_reward("BUY", entry_price, current_price), realises
\* pnl = ((current_price - entry_price) / entry_price) * capital, adds it to
\* capital, appends exactly the record {entry, exit, pnl, reward}, and leaves
\* the position flat with entry_price 0; from the reset state with capital
\* 100000, BUY at 100 then SELL at 110 gives capital 110000, a positive reward
\* and one trade.
C2_SellWhileLongRealisesTrade ==
    SoldWhileLong =>
        LET e == env_ret.pre.entry_price
            x == env_ret.price
            c == env_ret.pre.capital
            pnl == RMul(RDiv(RSub(x, e), e), c)
            rw == calculate_reward("BUY", e, x, NoFloat).value
        IN  /\ env_ret.reward = rw
            /\ capital = RAdd(c, pnl)
            /\ trade_history = env_ret.pre.trade_history
                   \o << [entry |-> e, exit |-> x, pnl |-> pnl, reward |-> rw] >>
            /\ position = 0
            /\ entry_price = Zero
            /\ (c = RInt(100000) /\ e = RInt(100) /\ x = RInt(110)
                    /\ env_ret.pre.trade_history = <<>>)
               => /\ capital = RInt(110000)
                  /\ RLt(Zero, env_ret.reward)
                  /\ Len(trade_history) = 1

\* the scenario of the specification: BUY at 100, then SELL at 110
C2_Witness ==
    /\ SoldWhileLong
    /\ env_ret.pre.capital = RInt(100000)
    /\ env_ret.pre.entry_price = RInt(100)
    /\ env_ret.price = RInt(110)
    /\ env_ret.pre.trade_history = <<>>
    /\ capital = RInt(110000)

\* a step call that decoded BUY while the position was flat
BoughtWhileFlat ==
    /\ env_ret.op = "step"
    /\ env_ret.action_str = "BUY"
    /\ env_ret.pre.position = 0

\* C3: a step that buys while flat sets position long and entry_price to the
\* current price, returns reward 0 and leaves capital and trade_history as
\* they were.
C3_BuyWhileFlatOpensLong ==
    BoughtWhileFlat =>
        /\ ~env_ret.raised
        /\ position = 1
        /\ entry_price = env_ret.price
        /\ env_ret.reward = Zero
        /\ capital = env_ret.pre.capital
        /\ trade_history = env_ret.pre.trade_history

\* a long position opened at 110 after an earlier trade
C3_Witness ==
    /\ BoughtWhileFlat
    /\ env_ret.price = RInt(110)
    /\ entry_price = RInt(110)
    /\ Len(trade_history) = 1

\* a step call whose decoded action does nothing in the position it met:
\* HOLD, BUY while long, SELL while flat
NoOpStep ==
    /\ env_ret.op = "step"
    /\ \/ env_ret.action_str = "HOLD"
       \/ env_ret.action_str = "BUY" /\ env_ret.pre.position = 1
       \/ env_ret.action_str = "SELL" /\ env_ret.pre.position = 0

\* C4: such a step leaves position, entry_price, capital and trade_history
\* unchanged and returns reward 0, while current_step grows by exactly 1.
C4_OtherCombinationsAreNoOps ==
    NoOpStep =>
        /\ ~env_ret.raised
        /\ position = env_ret.pre.position
        /\ entry_price = env_ret.pre.entry_price
        /\ capital = env_ret.pre.capital
        /\ trade_history = env_ret.pre.trade_history
        /\ env_ret.reward = Zero
        /\ current_step = env_ret.pre.current_step + 1

\* BUY while long at a price other than the entry price
C4_Witness ==
    /\ NoOpStep
    /\ env_ret.action_str = "BUY"
    /\ position = 1
    /\ env_ret.price # entry_price
    /\ current_step = 2

\* C5: a step that returns reports done exactly when, after the action,
\* current_step >= max_steps or capital <= 0 or capital >= 2 * initial_capital.
C5_StepDoneExactly ==
    (env_ret.op = "step" /\ ~env_ret.raised) =>
        (env_ret.done <=>
            \/ current_step >= max_steps
            \/ capital[1] <= 0
            \/ capital[1] >= 2 * initial_capital * capital[2])

\* done from a doubled capital alone, the step budget not yet used up
C5_Witness ==
    /\ env_ret.op = "step"
    /\ env_ret.done
    /\ current_step < max_steps
    /\ capital = RInt(2 * initial_capital)

\* C6: reset, from any state, sets current_step = 0, capital =
\* initial_capital, position = flat, entry_price = 0, trade_history = empty
\* and returns the encoding of the report mapping passed to it.
C6_ResetReturnsEncodingOfArgument ==
    (env_ret.op = "reset" /\ ~env_ret.mapping.none) =>
        /\ current_step = 0
        /\ capital = RInt(initial_capital)
        /\ position = 0
        /\ entry_price = Zero
        /\ trade_history = <<>>
        /\ ~env_ret.raised
        /\ env_ret.state = encode(env_ret.mapping, state_dim).vec

\* C7: every step_options call grows current_step by 1, adds the supplied pnl
\* to capital, appends exactly one record {strategy, premium, pnl, reward,
\* greeks} whose reward is calculate_options_reward of the inputs, leaves
\* position and entry_price alone, and reports done exactly when
\* current_step >= max_steps or capital <= initial_capital / 2 or
\* capital >= 3 * initial_capital / 2.
C7_StepOptionsIsOneRealisedTrade ==
    env_ret.op = "step_options" =>
        LET t == env_ret.trade
            rw == calculate_options_reward(IF t.action = 0 THEN "BUY" ELSE "SELL",
                      t.strategy, t.premium, t.pnl, t.max_loss, t.greeks)
        IN  /\ current_step = env_ret.pre.current_step + 1
            /\ capital = RAdd(env_ret.pre.capital, t.pnl)
            /\ trade_history = env_ret.pre.trade_history
                   \o << [strategy |-> t.strategy, premium |-> t.premium,
                          pnl |-> t.pnl, reward |-> rw, greeks |-> t.greeks] >>
            /\ env_ret.reward = rw
            /\ position = env_ret.pre.position
            /\ entry_price = env_ret.pre.entry_price
            /\ env_ret.done <=>
                   \/ current_step >= max_steps
                   \/ 2 * capital[1] <= initial_capital * capital[2]
                   \/ 2 * capital[1] >= 3 * initial_capital * capital[2]

\* an options trade made while a long stock position is open, ending the
\* episode at exactly half the initial capital
C7_Witness ==
    /\ env_ret.op = "step_options"
    /\ position = 1
    /\ env_ret.done
    /\ current_step < max_steps
    /\ 2 * capital[1] = initial_capital * capital[2]

\* C8: a train_step called while the buffer holds fewer than batch_size
\* transitions returns None and changes nothing: training_step, epsilon,
\* policy weights, target weights, optimizer state, losses and buffer are as
\* before the call.
C8_TrainStepNoOpBelowBatch ==
    (agent_ret.op = "train_step" /\ Len(agent_ret.pre.buffer) < batch_size) =>
        /\ ~agent_ret.raised
        /\ agent_ret.none
        /\ training_step = agent_ret.pre.training_step
        /\ epsilon = agent_ret.pre.epsilon
        /\ policy_net = agent_ret.pre.policy_net
        /\ target_net = agent_ret.pre.target_net
        /\ optimizer = agent_ret.pre.optimizer
        /\ losses = agent_ret.pre.losses
        /\ buffer = agent_ret.pre.buffer

\* a skipped train_step on a non-empty buffer one short of the batch
C8_Witness ==
    /\ agent_ret.op = "train_step"
    /\ agent_ret.none
    /\ batch_size = 2
    /\ Len(buffer) = 1

\* the number of updates performed so far
Updates == Len(weights_log) - 1

\* the train_step just made performed an update
Updated ==
    /\ agent_ret.op = "train_step"
    /\ ~agent_ret.raised
    /\ ~agent_ret.none

\* C9: training_step is the number of train_step calls that performed an
\* update; the target weights are the policy weights as they were right after
\* the most recent update whose training_step is a multiple of
\* target_update_freq (the construction-time weights if there was none); the
\* target weights change at no other moment; the policy weights change on
\* every update.
C9_TargetIsLastSynchronisedPolicy ==
    /\ training_step = Updates
    /\ target_net = weights_log[Updates - (Updates % target_update_freq) + 1]
    /\ target_net # agent_ret.pre.target_net =>
           Updated /\ training_step % target_update_freq = 0
    /\ Updated => policy_net # agent_ret.pre.policy_net

\* three updates at frequency 2: the target holds the weights of the second
\* update and lags the policy
C9_Witness ==
    /\ Updated
    /\ target_update_freq = 2
    /\ training_step = 3
    /\ target_net = weights_log[3]
    /\ target_net # policy_net
    /\ target_net # weights_log[1]

C11_SampleOnShortBufferRaises ==
    (sample_ret.called /\ Len(sample_ret.pre) < sample_ret.k) =>
        /\ sample_ret.raised
        /\ sample_ret.value = Unzip(<<>>)
        /\ sample_ret.post = sample_ret.pre

\* a buffer holding one transition was asked for two
C11_Witness ==
    /\ sample_ret.called
    /\ Len(sample_ret.pre) = 1
    /\ sample_ret.k = 2
    /\ sample_ret.raised
    /\ buffer = sample_ret.pre

\* C12: load_model on a checkpoint saved by an agent with another state_dim
\* or action_dim fails with an error and loads nothing: the policy weights,
\* the target weights, the optimizer state, epsilon and training_step are
\* exactly what they were before the call.
C12_MismatchedLoadLoadsNothing ==
    LET checkpoint == io_ret.files_pre[io_ret.path]
    IN  ( /\ io_ret.op = "load_model"
          /\ checkpoint.kind = "bundle"
          /\ checkpoint.dims # io_ret.pre_dims ) =>
            /\ io_ret.raised
            /\ io_ret.post.policy_net = io_ret.pre.policy_net
            /\ io_ret.post.target_net = io_ret.pre.target_net
            /\ io_ret.post.optimizer = io_ret.pre.optimizer
            /\ io_ret.post.epsilon = io_ret.pre.epsilon
            /\ io_ret.post.training_step = io_ret.pre.training_step

\* C14: whatever path save_model is given, when it returns the file at that
\* path holds the bundle of the agent's policy weights, target weights,
\* optimizer state, epsilon and training_step, and another file holds the
\* sidecar with state_dim, action_dim, gamma, epsilon and training_step.
C14_SaveLeavesBundleAndSeparateSidecar ==
    LET bundle == io_ret.files_post[io_ret.path]
    IN  (io_ret.op = "save_model" /\ ~io_ret.raised) =>
            /\ bundle.kind = "bundle"
            /\ bundle.policy_net_state_dict = io_ret.pre.policy_net
            /\ bundle.target_net_state_dict = io_ret.pre.target_net
            /\ bundle.optimizer_state_dict = io_ret.pre.optimizer
            /\ bundle.epsilon = io_ret.pre.epsilon
            /\ bundle.training_step = io_ret.pre.training_step
            /\ \E q \in AllPaths \ {io_ret.path} :
                   /\ io_ret.files_post[q].kind = "sidecar"
                   /\ io_ret.files_post[q].state_dim = io_ret.pre_dims.state_dim
                   /\ io_ret.files_post[q].action_dim = io_ret.pre_dims.action_dim
                   /\ io_ret.files_post[q].gamma = gamma
                   /\ io_ret.files_post[q].epsilon = io_ret.pre.epsilon
                   /\ io_ret.files_post[q].training_step = io_ret.pre.training_step

\* the last load_model call restored, into an agent that had just been
\* constructed, the file the last save_model call of an earlier agent of the
\* same dimensions wrote
LoadedWhatWasSaved ==
    /\ io_ret.op = "load_model"
    /\ saved.done
    /\ io_ret.path = saved.path
    /\ io_ret.agent # saved.by
    /\ io_ret.pre_dims = saved.dims
    /\ io_ret.pre.policy_net \in {FreshWeights(seed) : seed \in Seeds}
    /\ io_ret.pre.training_step = 0
    /\ io_ret.pre.epsilon = epsilon_start

\* the last two get_all_action_probabilities calls were given the same state,
\* the earlier by the agent that saved, on the weights it saved, the later by
\* the agent that loaded, on the weights it loaded
ProbedBoth ==
    /\ infer_ret.op = "get_all_action_probabilities"
    /\ infer_ret.agent = io_ret.agent
    /\ infer_ret.w = io_ret.post.policy_net
    /\ infer_ret.prev.op = "get_all_action_probabilities"
    /\ infer_ret.prev.agent = saved.by
    /\ infer_ret.prev.w = saved.fields.policy_net
    /\ infer_ret.prev.s = infer_ret.s

\* C13: after save_model by an agent A and load_model of the same path into a
\* freshly constructed agent B of the same state_dim and action_dim, B has
\* A's policy weights, target weights, epsilon and training_step, and
\* get_all_action_probabilities returns for B the distribution it returns
\* for A on the same state.
C13_RoundTripReproducesAgent ==
    LoadedWhatWasSaved =>
        /\ ~io_ret.raised
        /\ io_ret.post.policy_net = saved.fields.policy_net
        /\ io_ret.post.target_net = saved.fields.target_net
        /\ io_ret.post.epsilon = saved.fields.epsilon
        /\ io_ret.post.training_step = saved.fields.training_step
        /\ ProbedBoth => infer_ret.probs = infer_ret.prev.probs

\* C20: select_action(state, training=False) never takes the random branch,
\* whatever epsilon is, and returns the index of the first maximal output of
\* the policy network, so that two such calls on the same state and the same
\* weights return the same action; select_action(state, training=True)
\* returns an index in 0..action_dim-1.
C20_GreedyActionIsDeterministic ==
    /\ (infer_ret.op = "select_action" /\ ~infer_ret.training) =>
           /\ ~infer_ret.explore
           /\ infer_ret.action = argmax(infer_ret.q)
           /\ ( /\ infer_ret.prev.op = "select_action"
                /\ ~infer_ret.prev.training
                /\ infer_ret.prev.s = infer_ret.s
                /\ infer_ret.prev.w = infer_ret.w ) =>
                  infer_ret.action = infer_ret.prev.action
    /\ (infer_ret.op = "select_action" /\ infer_ret.training) =>
           infer_ret.action \in 0..(infer_ret.action_dim - 1)

\* the groups of the feature vector in order: first index (from 1) and size
GroupFirst == <<1, 10, 16, 19, 21>>
GroupSize == <<9, 6, 3, 2, 8>>

\* what the extractor of group g returns for the report of mapping m
GroupFeatures(m, g) ==
    CASE g = 1 -> extract_technical_features(GetReport(m, ReportKeys[1]))
      [] g = 2 -> extract_fundamental_features(GetReport(m, ReportKeys[2]))
      [] g = 3 -> extract_news_features(GetReport(m, ReportKeys[3]))
      [] g = 4 -> extract_sentiment_features(GetReport(m, ReportKeys[4]))
      [] g = 5 -> extract_options_features(GetReport(m, ReportKeys[5]))

\* C15: for a mapping of report names to texts, encode returns exactly
\* state_dim values: 9 technical, 6 fundamental, 3 news, 2 social and 8
\* options features in that order, the mode flag at index 28 (1.0 exactly for
\* options mode), zeros from there up to state_dim, all cut to the first
\* state_dim values when state_dim is below 29; a second call with the same
\* mapping returns the same vector; the encoder is left as it was.
C15_EncodeLayout ==
    (enc_ret.called /\ ~enc_ret.raised) =>
        LET d == enc_ret.pre.state_dim
            v == enc_ret.vec
        IN  /\ Len(v) = d
            /\ \A g \in 1..5 :
                   /\ Len(GroupFeatures(enc_ret.m, g)) = GroupSize[g]
                   /\ \A k \in 1..GroupSize[g] :
                          GroupFirst[g] + k - 1 <= d =>
                              v[GroupFirst[g] + k - 1] = GroupFeatures(enc_ret.m, g)[k]
            /\ d >= 29 =>
                   v[29] = IF enc_ret.m.trading_mode = "options" THEN One ELSE Zero
            /\ \A i \in 30..d : v[i] = Zero
            /\ (enc_ret.prev.called /\ enc_ret.prev.m = enc_ret.m) =>
                   (~enc_ret.prev.raised /\ enc_ret.prev.vec = v)
            /\ enc_ret.post = enc_ret.pre

\* an options-mode mapping with five texts was encoded twice into 12 values
C15_Witness ==
    /\ enc_ret.called
    /\ enc_ret.prev.called
    /\ enc_ret.m = TextMapping
    /\ enc_ret.prev.m = TextMapping
    /\ enc_ret.pre.state_dim = 12
    /\ Len(enc_ret.vec) = 12
    /\ enc_ret.vec[1] = <<7, 10>>
    /\ enc_ret.vec[9] = RNeg(One)
    /\ enc_ret.vec[10] = RInt(20)

\* C16: encode never fails: for a mapping in which a report is missing, the
\* empty string or None it returns state_dim values, and the group of that
\* report holds its full count of default values.
C16_EncodeNeverFails ==
    enc_ret.called =>
        /\ ~enc_ret.raised
        /\ Len(enc_ret.vec) = enc_ret.pre.state_dim
        /\ \A g \in 1..5 :
               (enc_ret.m[ReportKeys[g]] \in Blanks /\ enc_ret.pre.state_dim >= 29) =>
                   SubSeq(enc_ret.vec, GroupFirst[g], GroupFirst[g] + GroupSize[g] - 1)
                       = GroupFeatures(EmptyMapping, g)

\* C17: in every state of the environment, an empty trade history included,
\* get_trade_statistics returns a value for total trades, win rate, average
\* win, average loss, total P&L, Sharpe ratio, final capital and return
\* percentage, with total_trades 0, win_rate 0.0 and total_pnl 0.0 for an
\* empty history, so that render, which reads them, does not fail.
C17_StatisticsAlwaysComplete ==
    /\ stats_ret.op \in {"get_trade_statistics", "render"} =>
           /\ StatKeys \subseteq stats_ret.stats.keys
           /\ stats_ret.stats.total_trades = 0 =>
                  (stats_ret.stats.win_rate = Zero /\ stats_ret.stats.total_pnl = Zero)
    /\ stats_ret.op = "render" => ~stats_ret.raised

\* C18: in every state of the agent get_training_stats returns the mean
\* reward of the last 100 episodes, the mean of the last 100 losses, the
\* current epsilon, the number of training steps made and the number of
\* transitions in the buffer.
C18_TrainingStatsComplete ==
    train_stats_ret.op = "get_training_stats" =>
        LET st == train_stats_ret.stats
            pre == train_stats_ret.pre
        IN  /\ {"avg_reward", "avg_loss", "epsilon", "training_steps", "buffer_size"}
                   \subseteq st.keys
            /\ st.avg_reward = IF pre.episode_rewards = <<>> THEN Zero
                               ELSE RMean(LastN(pre.episode_rewards, 100))
            /\ st.avg_loss = [mean_of |-> LastN(pre.losses, 100)]
            /\ st.epsilon = pre.epsilon
            /\ st.training_steps = pre.training_step
            /\ st.buffer_size = Len(pre.buffer)

\* C19: train() with N episodes and a pipeline that does not fail runs all N
\* episodes, none of more than max_steps iterations, makes the progress
\* report after every tenth episode and the checkpoint after every hundredth
\* without an error, and ends with the final save_model.
C19_TrainRunsAllEpisodes ==
    /\ trainer.pc # "crashed"
    /\ trainer.step <= max_steps
    /\ trainer.episode <= trainer.episodes
    /\ trainer.pc \in {"start", "final", "done"} =>
           /\ trainer.recorded = trainer.episode
           /\ trainer.reports = trainer.episode \div 10
           /\ trainer.checkpoints = trainer.episode \div 100
    /\ trainer.pc = "done" =>
           /\ trainer.episode = trainer.episodes
           /\ files[TrainerSavePath].kind = "bundle"

\* the fractional return of a trade in its direction
Return(action, entry, exit) ==
    IF action = "BUY" THEN RDiv(RSub(exit, entry), entry)
    ELSE RDiv(RSub(entry, exit), entry)

\* C21: calculate_reward returns 0 for HOLD; for BUY or SELL it returns
\* base * |r| * 10 - transaction_cost - volatility * risk_penalty_weight (the
\* last term only when a volatility is given), r being the fractional return
\* in the trade's direction and base profit_reward when r > 0, loss_penalty
\* otherwise; so with the default parameters a losing trade has a strictly
\* negative reward, and a BUY from 100 to 90 has the reward -1.01.
C21_RewardFormula ==
    (calc_ret.op = "calculate_reward" /\ ~calc_ret.raised) =>
        /\ calc_ret.action = "HOLD" => calc_ret.value = Zero
        /\ calc_ret.action \in {"BUY", "SELL"} =>
             LET r == Return(calc_ret.action, calc_ret.entry, calc_ret.exit)
                 base == IF RLt(Zero, r) THEN profit_reward ELSE loss_penalty
                 risk == IF calc_ret.volatility.none THEN Zero
                         ELSE RMul(calc_ret.volatility.v, risk_penalty_weight)
             IN  /\ calc_ret.value =
                        RSub(RSub(RMul(RMul(base, RAbs(r)), RInt(10)), transaction_cost),
                             risk)
                 /\ RLt(r, Zero) => RLt(calc_ret.value, Zero)
                 /\ (calc_ret.action = "BUY" /\ calc_ret.entry = RInt(100)
                       /\ calc_ret.exit = RInt(90) /\ calc_ret.volatility.none)
                      => calc_ret.value = <<-101, 100>>

\* a losing BUY from 100 to 90 has been rewarded
C21_Witness ==
    /\ calc_ret.op = "calculate_reward"
    /\ ~calc_ret.raised
    /\ calc_ret.action = "BUY"
    /\ calc_ret.entry = RInt(100)
    /\ calc_ret.exit = RInt(90)
    /\ RLt(calc_ret.value, Zero)

\* C22: calculate_win_rate_reward never raises: for all wins >= 0,
\* losses >= 0, avg_win and avg_loss it returns a number, which is 0 when
\* wins + losses = 0, also when the total loss amount losses * |avg_loss| is
\* zero.
C22_WinRateRewardNeverRaises ==
    calc_ret.op = "calculate_win_rate_reward" =>
        /\ ~calc_ret.raised
        /\ calc_ret.wins + calc_ret.losses = 0 => calc_ret.value = Zero

\* C23: in a train_step that performs an update, the learning target of each
\* sampled transition is reward + gamma * (1 - done) * (max over the actions of
\* the output of the target network, as it was when train_step was called,
\* for next_state), never the policy network's; for a transition stored with
\* done = true the target is the reward alone.
C23_TargetFromTargetNetwork ==
    Updated =>
        LET u == agent_ret.value
        IN  /\ Len(u.targets) = Len(u.batch)
            /\ \A i \in 1..Len(u.batch) :
                 /\ u.targets[i].reward = u.batch[i].reward
                 /\ u.batch[i].done => u.targets[i].plus = [coeff |-> Zero, q |-> NoQ]
                 /\ ~u.batch[i].done =>
                        /\ u.targets[i].plus.coeff = gamma
                        /\ u.targets[i].plus.q =
                               MaxQ(agent_ret.pre.target_net, u.batch[i].next_state)

\* an update on a batch of a terminal and a non-terminal transition, made
\* while the target network lagged the policy network
C23_Witness ==
    /\ Updated
    /\ agent_ret.pre.target_net # agent_ret.pre.policy_net
    /\ \E i, j \in 1..Len(agent_ret.value.batch) :
           /\ agent_ret.value.batch[i].done
           /\ ~agent_ret.value.batch[j].done
           /\ agent_ret.value.targets[j].plus.q.net = agent_ret.pre.target_net

\* C24: ReplayBuffer.sample(batch_size) on a buffer of length >= batch_size
\* returns five parallel sequences of length batch_size whose index i holds
\* the five fields of one stored transition, the transitions coming from
\* distinct positions of the buffer; the buffer is the same before and after.
C24_SampleCopiesDistinctTransitions ==
    (sample_ret.called /\ Len(sample_ret.pre) >= sample_ret.k) =>
        /\ ~sample_ret.raised
        /\ \E p \in Picks(Len(sample_ret.pre), sample_ret.k) :
               sample_ret.value = Unzip([i \in 1..sample_ret.k |-> sample_ret.pre[p[i]]])
        /\ sample_ret.post = sample_ret.pre

\* C25: through reset, step and step_options the position is flat (0) or long
\* (1), never short; a flat position has entry_price 0; a long position has
\* the current_price of the most recent BUY executed while flat as its
\* entry_price: that BUY sets it, and it stays as long as the position is long.
C25_PositionAndEntryPrice ==
    /\ [](position \in {0, 1} /\ (position = 0 => entry_price = Zero))
    /\ [][IF BoughtWhileFlat'
          THEN position' = 1 /\ entry_price' = env_ret'.price
          ELSE position' = 1 => (position = 1 /\ entry_price' = entry_price)]_vars

\* a position opened at 110 and held through a later step at the price 100
C25_Witness ==
    /\ env_ret.op = "step"
    /\ env_ret.action_str = "HOLD"
    /\ env_ret.price = RInt(100)
    /\ env_ret.pre.position = 1
    /\ position = 1
    /\ entry_price = RInt(110)

\* trade_history is an initial part of what it is after the step
HistoryKept ==
    /\ Len(trade_history) <= Len(trade_history')
    /\ SubSeq(trade_history', 1, Len(trade_history)) = trade_history

\* C26: after any step and step_options calls since the last reset, capital
\* is initial_capital plus the sum of the pnl fields of the records of
\* trade_history, so that get_trade_statistics has total_pnl = capital -
\* initial_capital, total_trades = the number of realised trades and, where
\* it reports final_capital, the capital; a record of trade_history is
\* neither changed nor removed by anything but reset.
C26_CapitalIsInitialPlusRealisedPnl ==
    /\ [](/\ capital = RAdd(RInt(initial_capital),
                            RSum([i \in 1..Len(trade_history) |-> trade_history[i].pnl]))
          /\ get_trade_statistics.total_pnl = RSub(capital, RInt(initial_capital))
          /\ get_trade_statistics.total_trades = Len(trade_history)
          /\ "final_capital" \in get_trade_statistics.keys =>
                 get_trade_statistics.final_capital = capital)
    /\ [][(env_ret'.op # "reset" \/ env_ret' = env_ret) => HistoryKept]_vars

\* the statistics were read after a stock trade and an options trade
C26_Witness ==
    /\ stats_ret.op = "get_trade_statistics"
    /\ stats_ret.stats = get_trade_statistics
    /\ Len(trade_history) = 2
    /\ \E i, j \in 1..2 : /\ "entry" \in DOMAIN trade_history[i]
                          /\ "strategy" \in DOMAIN trade_history[j]
    /\ stats_ret.stats.total_pnl # Zero
    /\ capital # RInt(initial_capital)

\* a step or step_options call that returned
Returned(r) == r.op \in {"step", "step_options"} /\ ~r.raised

\* C27: termination is absorbing within an episode: once a step or
\* step_options call has returned done = true, the next step or step_options
\* call that returns before a reset returns done = true as well.
C27_DoneIsAbsorbing ==
    [][(Returned(env_ret) /\ env_ret.done /\ Returned(env_ret') /\ env_ret' # env_ret)
          => env_ret'.done]_vars

\* the position (counted from 1) of a name in get_feature_names
FeatureIndex(name) == CHOOSE i \in 1..Len(get_feature_names) : get_feature_names[i] = name

\* the feature of that name in a state vector, 0 where the vector is shorter
Feature(state, name) ==
    IF Len(state) >= FeatureIndex(name) THEN state[FeatureIndex(name)] ELSE Zero

\* C28: calculate_profit_probability computes from the trend feature and the
\* news-sentiment feature of the state, read at the positions encode gives
\* them (those named trend and news_sentiment by get_feature_names): 0.5 for
\* HOLD, 0.5 + 0.2 * trend + 0.2 * sentiment for BUY and 0.5 - 0.2 * trend -
\* 0.2 * sentiment for SELL, clipped to [0, 1].
C28_ProfitProbabilityReadsNamedFeatures ==
    calc_ret.op = "calculate_profit_probability" =>
        LET trend == Feature(calc_ret.state, "trend")
            sentiment == Feature(calc_ret.state, "news_sentiment")
            sum == RAdd(RMul(trend, <<1, 5>>), RMul(sentiment, <<1, 5>>))
        IN  /\ RLe(Zero, calc_ret.value) /\ RLe(calc_ret.value, One)
            /\ calc_ret.action = 1 => calc_ret.value = <<1, 2>>
            /\ calc_ret.action = 0 => calc_ret.value = Clip01(RAdd(<<1, 2>>, sum))
            /\ calc_ret.action = 2 => calc_ret.value = Clip01(RSub(<<1, 2>>, sum))

\* the fields of the episode a caller can see change
EpisodeFields(r) ==
    [current_step |-> r.current_step, agent_state |-> r.agent_state,
     capital |-> r.capital, position |-> r.position, entry_price |-> r.entry_price,
     trade_history |-> r.trade_history]

\* C29: a step call that raises (an action index outside the enumeration,
\* closing a long position whose entry price is 0) leaves current_step, the
\* stored report mapping, capital, position, entry_price and trade_history as
\* they were before the call.
C29_RaisingStepLeavesEpisodeUntouched ==
    (env_ret.op = "step" /\ env_ret.raised) =>
        EpisodeFields(EnvFields) = EpisodeFields(env_ret.pre)

\* C30: step_options reads its action index as step and decode_action do
\* (0 = BUY, 1 = HOLD, 2 = SELL): for every index in 0..2 the action label it
\* passes to the reward function and reports in info is the decode_action
\* name of the index.
C30_StepOptionsUsesDecodeAction ==
    (env_ret.op = "step_options" /\ env_ret.action \in 0..2) =>
        /\ env_ret.action_str = decode_action(env_ret.action, action_space_n).name
        /\ env_ret.reward =
               calculate_options_reward(
                   decode_action(env_ret.action, action_space_n).name,
                   env_ret.trade.strategy, env_ret.trade.premium, env_ret.trade.pnl,
                   env_ret.trade.max_loss, env_ret.trade.greeks)

====
